---- MODULE Spec2Model ----
(***************************************************************************)
(* Model of the duckdb read_lines extension: the line selection engine     *)
(* (src/src/line_selection.cpp) and the scans that consume it              *)
(* (src/src/read_lines.cpp, src/src/parse_text_lines.cpp).                 *)
(*                                                                         *)
(* int64_t is modelled as a two's complement integer of IntBits bits, so   *)
(* that INT64_MAX (the "unbounded end" sentinel) and the overflow of       *)
(* end + after and last.end + 1 are reachable with small numbers.          *)
(***************************************************************************)
EXTENDS Integers, Sequences, FiniteSets, TLC

\* ------------------------------------------------------------------------
\* Bounds of the model
\* ------------------------------------------------------------------------
\* width of the modelled int64_t
IntBits == 4
\* ordinary line numbers range over 1..MaxLine
MaxLine == 3
\* context amounts range over 0..MaxCtx
MaxCtx == 1
\* longest list of ranges / list value handed to the engine
MaxRanges == 2
\* most AddContext calls applied to one selection
MaxCtxCalls == 2
\* rows per output chunk (2048 in DuckDB)
STANDARD_VECTOR_SIZE == 2
\* most files in the file list of one read_lines scan
MaxFiles == 2
\* longest text of the enumerated parse_lines inputs
MaxTextLen == 3
\* calls made after a scan has returned an empty chunk
MaxEmptyCalls == 2

RECURSIVE Pow2(_)
Pow2(n) == IF n = 0 THEN 1 ELSE 2 * Pow2(n - 1)

Modulus == Pow2(IntBits)
\* std::numeric_limits<int64_t>::max() / min()
IntMax == Pow2(IntBits - 1) - 1
IntMin == -Pow2(IntBits - 1)
Int64 == IntMin..IntMax

\* a two's complement result of an int64_t operation
Wrap(x) == ((x - IntMin) % Modulus) + IntMin

\* a local value bound once: With(e, LAMBDA x : body) is body with x = e
With(v, Body(_)) == Body(v)

Max(a, b) == IF a >= b THEN a ELSE b
Min(a, b) == IF a <= b THEN a ELSE b

VARIABLES
    build,      \* what the build makes of the overflowing last.end + 1
    status,     \* "start", "ok" (a selection exists), "error" (the parse threw)
    val,        \* the input the selection was made from (until AddContext)
    sel,        \* the LineSelection: [match_all, ranges]
    base,       \* the selection as constructed, before any AddContext
    entry,      \* the range and context of a single spec string input
    ctx,        \* the AddContext calls so far: [n, before, after] (count, sums)
    fn,         \* the table function being scanned: "read_lines", "parse_lines"
    bind_data,  \* its bind data: [files, text, line_selection, ignore_errors]
    state,      \* its global state
    output,     \* the rows of the chunk the last call returned
    emitted,    \* all rows returned so far
    calls,      \* [n, empty]: the calls made and how many returned no row
    input       \* read_lines_lateral: [chunks, index, result, log], the input
                \* chunks, the one being consumed, the result of the last
                \* call and the rows taken so far

engineVars == <<status, val, sel, base, entry, ctx>>
scanVars == <<fn, bind_data, state, output, emitted, calls, input>>
vars == <<build, engineVars, scanVars>>

\* Signed overflow is undefined behaviour: a build either computes the
\* wrapped sum ("wrap") or folds the comparison start <= end + 1 as if
\* integers were unbounded ("fold").
Builds == {"wrap", "fold"}

\* ------------------------------------------------------------------------
\* LineRange and the range model
\* ------------------------------------------------------------------------
LineRange(s, e) == [start |-> s, end |-> e]

Contains(range, line) == line >= range.start /\ line <= range.end

\* std::sort by start on the short vectors used here is an insertion sort:
\* ranges of equal start keep their input order.
RECURSIVE InsertByStart(_, _)
InsertByStart(sorted, r) ==
    IF sorted = <<>> THEN <<r>>
    ELSE IF r.start < sorted[Len(sorted)].start
         THEN Append(InsertByStart(SubSeq(sorted, 1, Len(sorted) - 1), r),
                     sorted[Len(sorted)])
         ELSE Append(sorted, r)

RECURSIVE SortByStart(_)
SortByStart(ranges) ==
    IF ranges = <<>> THEN <<>>
    ELSE InsertByStart(SortByStart(SubSeq(ranges, 1, Len(ranges) - 1)),
                       ranges[Len(ranges)])

\* current.start <= last.end + 1, with last.end + 1 overflowing at INT64_MAX
OverlapOrAdjacent(last, current) ==
    IF build = "wrap" THEN current.start <= Wrap(last.end + 1)
    ELSE current.start <= last.end + 1

\* a merge loop that takes the end of the later range instead of the larger
\* end: the membership property tells it from MergeLoop
RECURSIVE MergeLoopNoMax(_, _, _)
MergeLoopNoMax(merged, ranges, i) ==
    IF i > Len(ranges) THEN merged
    ELSE LET last == merged[Len(merged)]
             current == ranges[i]
         IN IF OverlapOrAdjacent(last, current)
            THEN MergeLoopNoMax([merged EXCEPT ![Len(merged)].end = current.end],
                                ranges, i + 1)
            ELSE MergeLoopNoMax(Append(merged, current), ranges, i + 1)

RECURSIVE MergeLoop(_, _, _)
MergeLoop(merged, ranges, i) ==
    IF i > Len(ranges) THEN merged
    ELSE LET last == merged[Len(merged)]
             current == ranges[i]
         IN IF OverlapOrAdjacent(last, current)
            THEN MergeLoop([merged EXCEPT ![Len(merged)].end =
                                Max(last.end, current.end)], ranges, i + 1)
            ELSE MergeLoop(Append(merged, current), ranges, i + 1)

MergeRanges(ranges) ==
    IF ranges = <<>> THEN ranges
    ELSE LET sorted == SortByStart(ranges)
         IN MergeLoop(<<sorted[1]>>, sorted, 2)

\* LineSelection::All() and LineSelection(vector<LineRange>)
All == [match_all |-> TRUE, ranges |-> <<>>]
Selection(ranges) == [match_all |-> FALSE, ranges |-> MergeRanges(ranges)]

RECURSIVE IncludeLoop(_, _, _)
IncludeLoop(ranges, i, line_number) ==
    IF i > Len(ranges) THEN FALSE
    ELSE IF Contains(ranges[i], line_number) THEN TRUE
    ELSE IF line_number < ranges[i].start THEN FALSE
    ELSE IncludeLoop(ranges, i + 1, line_number)

ShouldIncludeLine(s, line_number) ==
    IF s.match_all THEN TRUE ELSE IncludeLoop(s.ranges, 1, line_number)

PastAllRanges(s, line_number) ==
    IF s.match_all THEN FALSE
    ELSE IF s.ranges = <<>> THEN TRUE
    ELSE line_number > s.ranges[Len(s.ranges)].end

\* range.start = max(1, range.start - before); range.end = range.end + after
ApplyContextToRange(range, before, after) ==
    LineRange(Max(1, Wrap(range.start - before)), Wrap(range.end + after))

AddContextTo(s, before, after) ==
    IF s.match_all THEN s
    ELSE [s EXCEPT !.ranges =
            MergeRanges([i \in 1..Len(s.ranges) |->
                LineRange(Max(1, Wrap(s.ranges[i].start - before)),
                          Wrap(s.ranges[i].end + after))])]

\* ------------------------------------------------------------------------
\* Strings: a std::string is a sequence of one-character strings, indexed
\* from 0 as in the code
\* ------------------------------------------------------------------------
npos == -1

DigitChars == <<"0", "1", "2", "3", "4", "5", "6", "7", "8", "9">>
IsDigit(c) == \E i \in 1..10 : DigitChars[i] = c
DigitVal(c) == (CHOOSE i \in 1..10 : DigitChars[i] = c) - 1
IsSpace(c) == c = " "
IsAlpha(c) == c \in {"a", "b", "f", "C", "x"}

At(str, i) == str[i + 1]

\* str.substr(pos, n) and str.substr(pos)
SubStr(str, pos, n) == SubSeq(str, pos + 1, Min(pos + n, Len(str)))
SubStrFrom(str, pos) == SubSeq(str, pos + 1, Len(str))

RECURSIVE LTrim(_)
LTrim(str) ==
    IF str # <<>> /\ IsSpace(str[1]) THEN LTrim(Tail(str)) ELSE str

RECURSIVE RTrim(_)
RTrim(str) ==
    IF str # <<>> /\ IsSpace(str[Len(str)])
    THEN RTrim(SubSeq(str, 1, Len(str) - 1)) ELSE str

\* StringUtil::Trim
Trim(str) == RTrim(LTrim(str))

\* str.find(pat): the first position where pat occurs, or npos
Find(str, pat) ==
    LET hits == {i \in 0..(Len(str) - Len(pat)) : SubStr(str, i, Len(pat)) = pat}
    IN IF hits = {} THEN npos ELSE CHOOSE i \in hits : \A j \in hits : i <= j

\* the end of the run of digits that starts at pos
RECURSIVE DigitsEnd(_, _)
DigitsEnd(str, pos) ==
    IF pos < Len(str) /\ IsDigit(At(str, pos)) THEN DigitsEnd(str, pos + 1) ELSE pos

\* the end of the run of whitespace that starts at pos
RECURSIVE SpacesEnd(_, _)
SpacesEnd(str, pos) ==
    IF pos < Len(str) /\ IsSpace(At(str, pos)) THEN SpacesEnd(str, pos + 1) ELSE pos

RECURSIVE DigitsValue(_, _)
DigitsValue(digits, acc) ==
    IF digits = <<>> THEN acc
    ELSE DigitsValue(Tail(digits), 10 * acc + DigitVal(digits[1]))

\* std::stoll: skips leading whitespace, takes an optional sign and the
\* longest run of digits, ignores whatever follows; throws when there is no
\* digit (invalid_argument) or the value does not fit (out_of_range).
Stoll(str) ==
    LET p0 == SpacesEnd(str, 0)
        signed == p0 < Len(str) /\ At(str, p0) \in {"-", "+"}
        negative == signed /\ At(str, p0) = "-"
        p1 == IF signed THEN p0 + 1 ELSE p0
        p2 == DigitsEnd(str, p1)
        magnitude == DigitsValue(SubStr(str, p1, p2 - p1), 0)
        value == IF negative THEN -magnitude ELSE magnitude
    IN IF p2 = p1 \/ value \notin Int64
       THEN [ok |-> FALSE, v |-> 0]
       ELSE [ok |-> TRUE, v |-> value]

\* ------------------------------------------------------------------------
\* The context suffix of a range string
\* ------------------------------------------------------------------------
Thrown == [ok |-> FALSE, before |-> 0, after |-> 0]

\* the loop over "-B" and "+A" of ParseContextSuffix
RECURSIVE ContextLoop(_, _, _, _, _, _)
ContextLoop(suffix, pos0, before, after, found_before, found_after) ==
    With(SpacesEnd(suffix, pos0), LAMBDA pos :
       IF pos0 >= Len(suffix) \/ pos >= Len(suffix)
       THEN [ok |-> TRUE, before |-> before, after |-> after]
       ELSE LET sign == At(suffix, pos)
                num_start == pos + 1
                num_end == DigitsEnd(suffix, num_start)
            IN With(Stoll(SubStr(suffix, num_start, num_end - num_start)), LAMBDA num :
               IF sign = "-" /\ ~found_before
               THEN IF num_end = num_start \/ ~num.ok THEN Thrown
                    ELSE ContextLoop(suffix, num_end, num.v, after, TRUE, found_after)
               ELSE IF sign = "+" /\ ~found_after
               THEN IF num_end = num_start \/ ~num.ok THEN Thrown
                    ELSE ContextLoop(suffix, num_end, before, num.v, found_before, TRUE)
               ELSE Thrown))

ParseContextSuffix(str, line_spec_end) ==
    IF line_spec_end >= Len(str) THEN [ok |-> TRUE, before |-> 0, after |-> 0]
    ELSE With(Trim(SubStrFrom(str, line_spec_end)), LAMBDA suffix :
            IF suffix = <<>> THEN [ok |-> TRUE, before |-> 0, after |-> 0]
            ELSE IF /\ Len(suffix) >= 4
                    /\ SubStr(suffix, 0, 3) \in {<<"+", "/", "-">>, <<"-", "/", "+">>}
            THEN With(Stoll(SubStrFrom(suffix, 3)), LAMBDA c :
                    IF ~c.ok \/ c.v < 0 THEN Thrown
                    ELSE [ok |-> TRUE, before |-> c.v, after |-> c.v])
            ELSE ContextLoop(suffix, 0, 0, 0, FALSE, FALSE))

\* ------------------------------------------------------------------------
\* LineSelection::ParseRangeString
\* ------------------------------------------------------------------------
NoRange == [ok |-> FALSE, range |-> LineRange(0, 0)]
Parsed(range) == [ok |-> TRUE, range |-> range]

\* IsRangeDash without the tail form that a space follows
IsRangeDashNoSpace(trimmed, i) ==
    /\ At(trimmed, i) = "-"
    /\ IF i = 0
       THEN i + 1 < Len(trimmed) /\ IsDigit(At(trimmed, i + 1))
       ELSE /\ IsDigit(At(trimmed, i - 1))
            /\ \/ i + 1 < Len(trimmed) /\ IsDigit(At(trimmed, i + 1))
               \/ i + 1 >= Len(trimmed)

\* whether the '-' at position i is taken as the range separator
IsRangeDash(trimmed, i) ==
    /\ At(trimmed, i) = "-"
    /\ IF i = 0
       THEN i + 1 < Len(trimmed) /\ IsDigit(At(trimmed, i + 1))
       ELSE /\ IsDigit(At(trimmed, i - 1))
            /\ \/ i + 1 < Len(trimmed) /\ IsDigit(At(trimmed, i + 1))
               \/ i + 1 >= Len(trimmed)
               \/ At(trimmed, i + 1) = " "

FindDash(trimmed) ==
    LET hits == {i \in 0..(Len(trimmed) - 1) : IsRangeDash(trimmed, i)}
    IN IF hits = {} THEN npos ELSE CHOOSE i \in hits : \A j \in hits : i <= j

\* the first space at or after search_start that is followed, after any
\* further spaces, by '-' or '+'; the length of the string when there is none
FindLineSpecEnd(trimmed, search_start) ==
    LET hits == {i \in search_start..(Len(trimmed) - 1) :
                    /\ At(trimmed, i) = " "
                    /\ LET j == SpacesEnd(trimmed, i + 1)
                       IN j < Len(trimmed) /\ At(trimmed, j) \in {"-", "+"}}
    IN IF hits = {} THEN Len(trimmed) ELSE CHOOSE i \in hits : \A j \in hits : i <= j

\* the range of the line spec, before the context is applied
ParseLineSpec(line_spec, ellipsis_pos, dash_pos) ==
    IF ellipsis_pos # npos \/ dash_pos # npos
    THEN LET start_str == Trim(IF ellipsis_pos # npos
                               THEN SubStr(line_spec, 0, ellipsis_pos)
                               ELSE SubStr(line_spec, 0, dash_pos))
             end_str == Trim(IF ellipsis_pos # npos
                             THEN SubStrFrom(line_spec, ellipsis_pos + 3)
                             ELSE SubStrFrom(line_spec, dash_pos + 1))
             Bounds(head, tail, s, e) ==
                IF ~head /\ tail
                THEN [ok |-> e.ok, start |-> 1, end |-> e.v]
                ELSE IF head /\ ~tail
                THEN [ok |-> s.ok, start |-> s.v, end |-> IntMax]
                ELSE IF head /\ tail
                THEN [ok |-> s.ok /\ e.ok, start |-> s.v, end |-> e.v]
                ELSE [ok |-> FALSE, start |-> 0, end |-> 0]
         IN With(Bounds(start_str # <<>>, end_str # <<>>, Stoll(start_str), Stoll(end_str)),
                 LAMBDA bounds :
                    IF ~bounds.ok \/ bounds.start < 1 \/ bounds.end < bounds.start
                    THEN NoRange
                    ELSE Parsed(LineRange(bounds.start, bounds.end)))
    ELSE With(Stoll(line_spec), LAMBDA line :
            IF ~line.ok \/ line.v < 1 THEN NoRange
            ELSE Parsed(LineRange(line.v, line.v)))

\* the pieces ParseRangeString computes: [ok, range (before context), before, after]
RangeStringParts(str) ==
    With(Trim(str), LAMBDA trimmed :
    With(Find(trimmed, <<".", ".", ".">>), LAMBDA ellipsis_pos :
    With(IF ellipsis_pos = npos THEN FindDash(trimmed) ELSE npos, LAMBDA dash_pos :
    With(IF ellipsis_pos # npos THEN ellipsis_pos ELSE dash_pos, LAMBDA sep_pos :
    With(IF ellipsis_pos # npos THEN 3 ELSE 1, LAMBDA sep_len :
    With(IF sep_pos # npos THEN sep_pos + sep_len ELSE 0, LAMBDA search_start :
    With(FindLineSpecEnd(trimmed, search_start), LAMBDA line_spec_end :
    With(Trim(SubStr(trimmed, 0, line_spec_end)), LAMBDA line_spec :
    With(ParseContextSuffix(trimmed, line_spec_end), LAMBDA context :
    With(IF sep_pos # npos /\ sep_pos < line_spec_end
         THEN ParseLineSpec(line_spec, ellipsis_pos, dash_pos)
         ELSE ParseLineSpec(line_spec, npos, npos), LAMBDA spec :
       [ok |-> context.ok /\ spec.ok, range |-> spec.range,
        before |-> context.before, after |-> context.after]))))))))))

ParseRangeString(str) ==
    With(RangeStringParts(str), LAMBDA parts :
       IF ~parts.ok THEN NoRange
       ELSE Parsed(ApplyContextToRange(parts.range, parts.before, parts.after)))

\* ------------------------------------------------------------------------
\* Values handed to LineSelection::Parse
\*   [tag |-> "null"], [tag |-> "int", v], [tag |-> "str", s],
\*   [tag |-> "struct", start, stop, line, lines, inclusive, before, after,
\*    context], [tag |-> "list", items]
\* A struct field is an int64, Null (a NULL value) or Absent (no such field
\* in the struct type); a `lines` field is a list, <<Null>> or <<Absent>>;
\* `inclusive` is 1 (true), 0 (false), Null or Absent.
\* ------------------------------------------------------------------------
Null == IntMin - 1
Absent == IntMin - 2

HasValue(field) == field \notin {Null, Absent}

\* IsLineStruct: the struct type has a start, stop, line or lines field
IsLineStruct(value) ==
    \/ value.start # Absent
    \/ value.stop # Absent
    \/ value.line # Absent
    \/ value.lines # <<Absent>>

NoRanges == [ok |-> FALSE, ranges |-> <<>>]

\* ParseLineStruct with one deliberate change, named by `change`:
\*   "line_first"        the `line` form is tried before start and stop
\*   "always_inclusive"  `inclusive` is ignored, stop is always included
\*   "context_adds"      `context` is added to before and after, not set
StructVariant(value, change) ==
    LET start == IF HasValue(value.start) THEN value.start ELSE -1
        stop == IF HasValue(value.stop) THEN value.stop ELSE -1
        line == IF HasValue(value.line) THEN value.line ELSE -1
        lines == IF value.lines \in {<<Null>>, <<Absent>>} THEN <<>> ELSE value.lines
        inclusive == IF HasValue(value.inclusive) /\ change # "always_inclusive"
                     THEN value.inclusive = 1 ELSE TRUE
        before0 == IF HasValue(value.before) THEN value.before ELSE 0
        after0 == IF HasValue(value.after) THEN value.after ELSE 0
        context == IF HasValue(value.context) THEN value.context ELSE -1
        negative == before0 < 0 \/ after0 < 0 \/ (HasValue(value.context) /\ context < 0)
        before == IF context < 0 THEN before0
                  ELSE IF change = "context_adds" THEN before0 + context ELSE context
        after == IF context < 0 THEN after0
                 ELSE IF change = "context_adds" THEN after0 + context ELSE context
        One(range) == [ok |-> TRUE, ranges |-> <<ApplyContextToRange(range, before, after)>>]
        effective_end == IF inclusive THEN stop ELSE Wrap(stop - 1)
    IN IF negative THEN NoRanges
       ELSE IF change = "line_first" /\ line >= 1 THEN One(LineRange(line, line))
       ELSE IF start >= 0 /\ stop >= 0
       THEN IF start < 1 \/ effective_end < start THEN NoRanges
            ELSE One(LineRange(start, effective_end))
       ELSE IF start >= 0 /\ stop < 0
       THEN IF start < 1 THEN NoRanges ELSE One(LineRange(start, IntMax))
       ELSE IF stop >= 0 /\ start < 0
       THEN IF effective_end < 1 THEN NoRanges ELSE One(LineRange(1, effective_end))
       ELSE IF line >= 0
       THEN IF line < 1 THEN NoRanges ELSE One(LineRange(line, line))
       ELSE IF lines # <<>>
       THEN IF \E i \in 1..Len(lines) : lines[i] < 1 THEN NoRanges
            ELSE [ok |-> TRUE,
                  ranges |-> [i \in 1..Len(lines) |->
                      ApplyContextToRange(LineRange(lines[i], lines[i]), before, after)]]
       ELSE NoRanges

ParseLineStructLineFirst(value) == StructVariant(value, "line_first")
ParseLineStructInclusive(value) == StructVariant(value, "always_inclusive")

ParseLineStruct(value) ==
    LET \* field values, with the sentinels of the code for "not specified"
        start == IF HasValue(value.start) THEN value.start ELSE -1
        stop == IF HasValue(value.stop) THEN value.stop ELSE -1
        line == IF HasValue(value.line) THEN value.line ELSE -1
        lines == IF value.lines \in {<<Null>>, <<Absent>>} THEN <<>> ELSE value.lines
        inclusive == IF HasValue(value.inclusive) THEN value.inclusive = 1 ELSE TRUE
        before0 == IF HasValue(value.before) THEN value.before ELSE 0
        after0 == IF HasValue(value.after) THEN value.after ELSE 0
        context == IF HasValue(value.context) THEN value.context ELSE -1
        negative == before0 < 0 \/ after0 < 0 \/ (HasValue(value.context) /\ context < 0)
        before == IF context >= 0 THEN context ELSE before0
        after == IF context >= 0 THEN context ELSE after0
        One(range) == [ok |-> TRUE, ranges |-> <<ApplyContextToRange(range, before, after)>>]
        effective_end == IF inclusive THEN stop ELSE Wrap(stop - 1)
    IN IF negative THEN NoRanges
       ELSE IF start >= 0 /\ stop >= 0
       THEN IF start < 1 \/ effective_end < start THEN NoRanges
            ELSE One(LineRange(start, effective_end))
       ELSE IF start >= 0 /\ stop < 0
       THEN IF start < 1 THEN NoRanges
            ELSE One(LineRange(start, IntMax))
       ELSE IF stop >= 0 /\ start < 0
       THEN IF effective_end < 1 THEN NoRanges
            ELSE One(LineRange(1, effective_end))
       ELSE IF line >= 0
       THEN IF line < 1 THEN NoRanges
            ELSE One(LineRange(line, line))
       ELSE IF lines # <<>>
       THEN IF \E i \in 1..Len(lines) : lines[i] < 1 THEN NoRanges
            ELSE [ok |-> TRUE,
                  ranges |-> [i \in 1..Len(lines) |->
                      ApplyContextToRange(LineRange(lines[i], lines[i]), before, after)]]
       ELSE NoRanges

\* the ranges one list item adds: a string, a line struct, or else an integer
ParseItem(item) ==
    IF item.tag = "str"
    THEN With(ParseRangeString(item.s), LAMBDA r :
            IF r.ok THEN [ok |-> TRUE, ranges |-> <<r.range>>] ELSE NoRanges)
    ELSE IF item.tag = "struct" /\ IsLineStruct(item)
    THEN ParseLineStruct(item)
    ELSE IF item.tag = "int" /\ item.v >= 1
    THEN [ok |-> TRUE, ranges |-> <<LineRange(item.v, item.v)>>]
    ELSE NoRanges

\* a list loop that keeps only the ranges of the last item instead of
\* pooling them: the union property tells it from ParseItems
RECURSIVE ParseItemsLast(_, _, _)
ParseItemsLast(items, i, ranges) ==
    IF i > Len(items) THEN [ok |-> TRUE, ranges |-> ranges]
    ELSE With(ParseItem(items[i]), LAMBDA r :
            IF ~r.ok THEN NoRanges
            ELSE ParseItemsLast(items, i + 1, r.ranges))

\* a list loop that passes over an item that fails and keeps the ranges of
\* the others
RECURSIVE ParseItemsSkipFailed(_, _, _)
ParseItemsSkipFailed(items, i, ranges) ==
    IF i > Len(items) THEN [ok |-> TRUE, ranges |-> ranges]
    ELSE With(ParseItem(items[i]), LAMBDA r :
            ParseItemsSkipFailed(items, i + 1,
                                 IF r.ok THEN ranges \o r.ranges ELSE ranges))

RECURSIVE ParseItems(_, _, _)
ParseItems(items, i, ranges) ==
    IF i > Len(items) THEN [ok |-> TRUE, ranges |-> ranges]
    ELSE With(ParseItem(items[i]), LAMBDA r :
            IF ~r.ok THEN NoRanges
            ELSE ParseItems(items, i + 1, ranges \o r.ranges))

Failed == [ok |-> FALSE, sel |-> All]

\* LineSelection::Parse: [ok, sel]; ok is FALSE when it throws
Parse(value) ==
    IF value.tag = "null" THEN [ok |-> TRUE, sel |-> All]
    ELSE With(IF value.tag = "list" THEN ParseItems(value.items, 1, <<>>)
              ELSE IF value.tag \in {"int", "str", "struct"} THEN ParseItem(value)
              ELSE NoRanges, LAMBDA r :
            IF ~r.ok THEN Failed
            ELSE IF r.ranges = <<>> THEN [ok |-> TRUE, sel |-> All]
            ELSE [ok |-> TRUE, sel |-> Selection(r.ranges)])

\* ------------------------------------------------------------------------
\* LineSelection::ParsePathWithLineSpec: [path, sel]
\* ------------------------------------------------------------------------
\* whether the ':' at position i - 1 can start a line spec
IsSpecColon(path, i) ==
    /\ At(path, i - 1) = ":"
    /\ i < Len(path)
    /\ LET next == At(path, i)
       IN \/ IsDigit(next)
          \/ next = "-" /\ i + 1 < Len(path) /\ IsDigit(At(path, i + 1))
          \/ next = "." /\ i + 2 < Len(path) /\ At(path, i + 1) = "."
                        /\ At(path, i + 2) = "."

\* ParsePathWithLineSpec splitting at the first colon a line spec can follow
ParsePathFirstColon(path) ==
    LET hits == {i \in 1..Len(path) : IsSpecColon(path, i)}
        colon_pos == IF hits = {} THEN npos
                     ELSE (CHOOSE i \in hits : \A j \in hits : i <= j) - 1
        file_path == SubStr(path, 0, colon_pos)
        line_spec == SubStrFrom(path, colon_pos + 1)
    IN With(ParseRangeString(line_spec), LAMBDA r :
       IF colon_pos = npos \/ ~r.ok
       THEN [path |-> path, sel |-> All]
       ELSE [path |-> file_path, sel |-> Selection(<<r.range>>)])

ParsePathWithLineSpec(path) ==
    LET hits == {i \in 1..Len(path) : IsSpecColon(path, i)}
        colon_pos == IF hits = {} THEN npos
                     ELSE (CHOOSE i \in hits : \A j \in hits : i >= j) - 1
        drive == /\ colon_pos = 1
                 /\ IsAlpha(At(path, 0))
                 /\ colon_pos + 1 < Len(path)
                 /\ At(path, colon_pos + 1) \in {"\\", "/"}
        file_path == SubStr(path, 0, colon_pos)
        line_spec == SubStrFrom(path, colon_pos + 1)
    IN With(ParseRangeString(line_spec), LAMBDA r :
       IF colon_pos = npos \/ drive \/ ~r.ok
       THEN [path |-> path, sel |-> All]
       ELSE [path |-> file_path, sel |-> Selection(<<r.range>>)])

\* ------------------------------------------------------------------------
\* Inputs
\* ------------------------------------------------------------------------
\* line numbers: small ones and ones a few lines below the sentinel
LineVals == (1..MaxLine) \cup {IntMax - 3, IntMax - 1}
EndVals == LineVals \cup {IntMax}
CtxVals == 0..MaxCtx

ValidRanges ==
    {r \in [start : LineVals, end : EndVals] : r.end >= r.start}

SeqsUpTo(S, n) == UNION {[1..k -> S] : k \in 0..n}

RangeLists == SeqsUpTo(ValidRanges, MaxRanges) \ {<<>>}

\* the decimal digits of n >= 0
RECURSIVE Digits(_)
Digits(n) ==
    IF n < 10 THEN <<DigitChars[n + 1]>>
    ELSE Digits(n \div 10) \o <<DigitChars[(n % 10) + 1]>>

\* the line specs of the mini-language over the numbers n <= m
LineSpecs(n, m) ==
    { Digits(n),
      Digits(n) \o <<"-">> \o Digits(m),
      Digits(n) \o <<".", ".", ".">> \o Digits(m),
      <<"-">> \o Digits(n),
      <<".", ".", ".">> \o Digits(n),
      Digits(n) \o <<"-">>,
      Digits(n) \o <<".", ".", ".">> }

\* the context suffixes for b lines before and a lines after
Suffixes(b, a) ==
    { <<>>,
      <<" ", "-">> \o Digits(b),
      <<" ", "+">> \o Digits(a),
      <<" ", "-">> \o Digits(b) \o <<" ", "+">> \o Digits(a),
      <<" ", "+">> \o Digits(a) \o <<" ", "-">> \o Digits(b),
      <<" ", "-">> \o Digits(b) \o <<"+">> \o Digits(a),
      <<" ", "+">> \o Digits(a) \o <<"-">> \o Digits(b),
      <<" ", "+", "/", "-">> \o Digits(b),
      <<" ", "-", "/", "+">> \o Digits(a) }

WellFormedStrings ==
    UNION { {spec \o suffix : spec \in LineSpecs(n, m), suffix \in Suffixes(b, a)} :
            n \in 1..MaxLine, m \in 1..MaxLine, b \in CtxVals, a \in CtxVals }

MalformedStrings ==
    { <<>>, <<"0">>, <<"x">>, <<"3", "-", "2">>, <<"2", "x">>, <<"2", " ", "-">>,
      <<"2", " ", "+">>, <<"2", " ", "-", "1", " ", "-", "1">>,
      <<"2", " ", "+", "/", "-", "x">>, <<"-", "0">>, <<"0", "-">> }

\* the line specs of every shape over the numbers 1 <= n <= m <= MaxLine
ValidLineSpecs ==
    UNION {LineSpecs(pair[1], pair[2]) :
           pair \in {p \in (1..MaxLine) \X (1..MaxLine) : p[1] <= p[2]}}

\* "-B" and "+A" for the amounts of the inputs
Markers(sign) == {<<sign>> \o Digits(x) : x \in CtxVals}

\* suffixes in which a '-' or a '+' has no digits after it
DanglingSuffixes ==
    { <<" ", "-">>, <<" ", "+">>, <<" ", "-", "x">>, <<" ", "+", "x">>,
      <<" ", "-", " ", "1">>, <<" ", "-", "1", " ", "+">>, <<" ", "+", "1", " ", "-">>,
      <<" ", "+", "1", "-">> }

\* suffixes with two before markers or two after markers
DuplicateSuffixes ==
    { <<" ">> \o first \o gap \o second :
        first \in Markers("-"), second \in Markers("-"), gap \in {<<>>, <<" ">>} }
    \cup { <<" ">> \o first \o gap \o second :
        first \in Markers("+"), second \in Markers("+"), gap \in {<<>>, <<" ">>} }

\* strings with a line number, a range or a head that is out of order
OutOfOrderStrings ==
    { <<"0">>, <<"-", "0">>, <<".", ".", ".", "0">> }
    \cup UNION { {Digits(pair[1]) \o <<"-">> \o Digits(pair[2]),
                  Digits(pair[1]) \o <<".", ".", ".">> \o Digits(pair[2])} :
                 pair \in {p \in (1..(MaxLine + 1)) \X (1..MaxLine) : p[1] > p[2]} }

SuffixErrorStrings ==
    {spec \o suffix : spec \in ValidLineSpecs, suffix \in DanglingSuffixes \cup DuplicateSuffixes}

\* strings with a numeral that is not made of digits only
MalformedNumerals ==
    { <<"x">>, <<"x", "2">>, <<"2", "x">>, <<"2", ".", "5">>, <<"2", ":", "3">>,
      <<"2", "x", "-", "3">>, <<"2", "-", "3", "x">>, <<"2", ".", ".", ".", "3", "x">>,
      <<"x", "-", "3">>, <<"-", "3", "x">>, <<"2", "x", ".", ".", ".">>,
      <<"2", " ", "+", "/", "-", "x">>, <<"2", " ", "+", "/", "-", "1", "x">>,
      <<"2", " ", "-", "/", "+", "1", ".", "5">> }

SpecStrings ==
    WellFormedStrings \cup MalformedStrings \cup OutOfOrderStrings \cup SuffixErrorStrings
    \cup MalformedNumerals

StringValues == {[tag |-> "str", s |-> s] : s \in SpecStrings}

IntValues == {[tag |-> "int", v |-> v] : v \in 0..MaxLine}

\* a struct with none of the fields
NoFields ==
    [tag |-> "struct", start |-> Absent, stop |-> Absent, line |-> Absent,
     lines |-> <<Absent>>, inclusive |-> Absent, before |-> Absent,
     after |-> Absent, context |-> Absent]

FieldVals == {Absent, Null} \cup ((-2)..MaxLine)

StructValues ==
    { [NoFields EXCEPT !.start = f.start, !.stop = f.stop, !.line = f.line,
                       !.lines = f.lines, !.inclusive = f.inclusive,
                       !.before = f.before, !.after = f.after,
                       !.context = f.context] :
      f \in [start : FieldVals, stop : FieldVals, line : {Absent, 2},
             lines : {<<Absent>>, <<3, 1>>}, inclusive : {Absent, 0, 1},
             before : {Absent, MaxCtx}, after : {Absent, MaxCtx},
             context : {Absent, 0}] }

\* the items of list values
ListItems ==
    {[tag |-> "int", v |-> v] : v \in 1..MaxLine}
    \cup {[tag |-> "str", s |-> s] :
            s \in { <<"2", "-", "3">>, <<"2", "-">>, <<"3", "-", " ", "+", "1">>,
                    <<"-", "2">>, <<"1", " ", "+", "1">> }}
    \cup { [NoFields EXCEPT !.lines = <<1, 3>>],
           [NoFields EXCEPT !.start = 2],
           [NoFields EXCEPT !.start = 1, !.stop = 2, !.inclusive = 0],
           [NoFields EXCEPT !.line = 2, !.context = MaxCtx] }

ListValues == {[tag |-> "list", items |-> items] : items \in SeqsUpTo(ListItems, MaxRanges)}

Values == {[tag |-> "null"]} \cup IntValues \cup StringValues \cup StructValues
          \cup ListValues

\* paths with and without an embedded line spec
Paths ==
    { <<"f">>, <<"f", ":", "x">>, <<"C", ":", "/", "f">>, <<"C", ":", "/", "f", ":", "2">>,
      <<"f", ":", "0">>, <<"f", ":", "2", ":", "x">>, <<"a", ":", "1", ":", "3", "-">> }
    \cup {<<"f", ":">> \o s : s \in WellFormedStrings}

\* ------------------------------------------------------------------------
\* Operations
\* ------------------------------------------------------------------------
NoVal == [tag |-> "none"]
NoCtx == [n |-> 0, before |-> 0, after |-> 0]
NoEntry == [has |-> FALSE, range |-> LineRange(0, 0), before |-> 0, after |-> 0]
NoBind == [files |-> <<>>, text |-> <<>>, line_selection |-> All, ignore_errors |-> FALSE]
NoState == [thrown |-> FALSE]
NoCalls == [n |-> 0, empty |-> 0]
NoInput == [chunks |-> <<>>, index |-> 0, result |-> "none", log |-> <<>>]

\* the kind of input a selection was made from, also after AddContext
Origin(v) == IF v.tag = "gone" THEN v.from ELSE v.tag

\* the range and the context a single spec string was parsed into
EntryOf(str) ==
    With(RangeStringParts(str), LAMBDA parts :
       [has |-> TRUE, range |-> parts.range, before |-> parts.before,
        after |-> parts.after])

Init ==
    /\ build \in Builds
    /\ status = "start"
    /\ val = NoVal
    /\ sel = All
    /\ base = All
    /\ entry = NoEntry
    /\ ctx = NoCtx
    /\ fn = "none"
    /\ bind_data = NoBind
    /\ state = NoState
    /\ output = <<>>
    /\ emitted = <<>>
    /\ calls = NoCalls
    /\ input = NoInput

\* LineSelection(vector<LineRange>) on a list of valid ranges
Construct ==
    /\ status = "start"
    /\ \E rs \in RangeLists :
        /\ val' = [tag |-> "ranges", ranges |-> rs]
        /\ sel' = Selection(rs)
        /\ base' = Selection(rs)
    /\ status' = "ok"
    /\ UNCHANGED <<build, entry, ctx, scanVars>>

\* LineSelection::Parse(value)
ParseValue ==
    /\ status = "start"
    /\ \E value \in Values :
        With(Parse(value), LAMBDA r :
           /\ val' = value
           /\ status' = IF r.ok THEN "ok" ELSE "error"
           /\ sel' = r.sel
           /\ base' = r.sel
           /\ entry' = IF r.ok /\ value.tag = "str" THEN EntryOf(value.s) ELSE NoEntry)
    /\ UNCHANGED <<build, ctx, scanVars>>

\* LineSelection::ParsePathWithLineSpec(path)
ParsePath ==
    /\ status = "start"
    /\ \E path \in Paths :
        With(ParsePathWithLineSpec(path), LAMBDA r :
           /\ val' = [tag |-> "path", s |-> path, path |-> r.path]
           /\ sel' = r.sel
           /\ base' = r.sel
           /\ entry' = IF r.sel.match_all THEN NoEntry
                       ELSE EntryOf(SubStrFrom(path, Len(r.path) + 1)))
    /\ status' = "ok"
    /\ UNCHANGED <<build, ctx, scanVars>>

\* LineSelection::AddContext(before, after)
AddContext ==
    /\ status = "ok"
    /\ ctx.n < MaxCtxCalls
    /\ \E before \in CtxVals, after \in CtxVals :
        /\ sel' = AddContextTo(sel, before, after)
        /\ ctx' = [n |-> ctx.n + 1, before |-> ctx.before + before,
                   after |-> ctx.after + after]
    /\ val' = [tag |-> "gone", from |-> Origin(val)]
    /\ UNCHANGED <<build, status, base, entry, scanVars>>

Next == Construct \/ ParseValue \/ ParsePath \/ AddContext

Spec == Init /\ [][Next]_vars

\* ------------------------------------------------------------------------
\* Files and the scan of read_lines (src/src/read_lines.cpp)
\* A file is [path, content, opens, fail_at]: OpenFile throws when opens is
\* FALSE, ReadLine throws when called at position fail_at (-1: never).
\* ------------------------------------------------------------------------
\* FileHandle::ReadLine at seek position pos: the text up to the next "\n",
\* which is consumed and not returned, or up to the end of the file
ReadLine(file, pos) ==
    LET size == Len(file.content)
        ends == {i \in pos..(size - 1) : At(file.content, i) = "\n"}
        nl == IF ends = {} THEN size ELSE CHOOSE i \in ends : \A j \in ends : i <= j
    IN IF file.fail_at = pos
       THEN [thrown |-> TRUE, line |-> <<>>, pos |-> pos]
       ELSE [thrown |-> FALSE, line |-> SubStr(file.content, pos, nl - pos),
             pos |-> Min(nl + 1, size)]

RECURSIVE CountLoop(_, _, _)
CountLoop(file, pos, count) ==
    LET r == ReadLine(file, pos)
    IN IF r.thrown THEN count
       ELSE IF r.line = <<>> /\ r.pos >= Len(file.content) THEN count
       ELSE CountLoop(file, r.pos, count + 1)

CountLinesInFile(file) == CountLoop(file, 0, 0)

\* a range list holds a from-end reference: a negative start or end
HasFromEndReferences(s) ==
    /\ ~s.match_all
    /\ \E i \in 1..Len(s.ranges) : s.ranges[i].start < 0 \/ s.ranges[i].end < 0

\* a negative marker m becomes total_lines - |m| + 1, clamped to >= 1
FromEnd(m, total_lines) == IF m < 0 THEN Max(1, total_lines + m + 1) ELSE m

ResolveFromEnd(s, total_lines) ==
    IF s.match_all THEN s
    ELSE [s EXCEPT !.ranges =
            MergeRanges([i \in 1..Len(s.ranges) |->
                LineRange(FromEnd(s.ranges[i].start, total_lines),
                          FromEnd(s.ranges[i].end, total_lines))])]

\* ReadTextLinesGlobalState()
ReadTextLinesInit ==
    [file_index |-> 0, current_file |-> 0, pos |-> 0, current_line_number |-> 0,
     current_byte_offset |-> 0, current_file_path |-> "", file_finished |-> TRUE,
     resolved_selection |-> All, thrown |-> FALSE]

\* OpenNextFile passing over every file that fails to open, whatever
\* ignore_errors is
RECURSIVE OpenNextFileAlwaysSkip(_, _)
OpenNextFileAlwaysSkip(bind, st) ==
    IF st.file_index >= Len(bind.files)
    THEN [opened |-> FALSE, thrown |-> FALSE, st |-> st]
    ELSE LET index == st.file_index + 1
             file_info == bind.files[index]
             st1 == [st EXCEPT !.file_index = index]
         IN IF ~file_info.opens
            THEN OpenNextFileAlwaysSkip(bind, st1)
            ELSE [opened |-> TRUE, thrown |-> FALSE,
                  st |-> [st1 EXCEPT
                      !.current_file = index,
                      !.pos = 0,
                      !.current_file_path = file_info.path,
                      !.current_line_number = 0,
                      !.current_byte_offset = 0,
                      !.file_finished = FALSE,
                      !.resolved_selection =
                          IF HasFromEndReferences(bind.line_selection)
                          THEN ResolveFromEnd(bind.line_selection,
                                              CountLinesInFile(file_info))
                          ELSE bind.line_selection]]

\* OpenNextFile that copies the selection of the bind data only to resolve it
RECURSIVE OpenNextFileNoCopy(_, _)
OpenNextFileNoCopy(bind, st) ==
    IF st.file_index >= Len(bind.files)
    THEN [opened |-> FALSE, thrown |-> FALSE, st |-> st]
    ELSE LET index == st.file_index + 1
             file_info == bind.files[index]
             st1 == [st EXCEPT !.file_index = index]
         IN IF ~file_info.opens
            THEN IF ~bind.ignore_errors
                 THEN [opened |-> FALSE, thrown |-> TRUE, st |-> st1]
                 ELSE OpenNextFileNoCopy(bind, st1)
            ELSE [opened |-> TRUE, thrown |-> FALSE,
                  st |-> [st1 EXCEPT
                      !.current_file = index,
                      !.pos = 0,
                      !.current_file_path = file_info.path,
                      !.current_line_number = 0,
                      !.current_byte_offset = 0,
                      !.file_finished = FALSE,
                      !.resolved_selection =
                          IF HasFromEndReferences(bind.line_selection)
                          THEN ResolveFromEnd(bind.line_selection,
                                              CountLinesInFile(file_info))
                          ELSE @]]

\* OpenNextFile that leaves the line counter and the byte offset as the file
\* before left them
RECURSIVE OpenNextFileNoReset(_, _)
OpenNextFileNoReset(bind, st) ==
    IF st.file_index >= Len(bind.files)
    THEN [opened |-> FALSE, thrown |-> FALSE, st |-> st]
    ELSE LET index == st.file_index + 1
             file_info == bind.files[index]
             st1 == [st EXCEPT !.file_index = index]
         IN IF ~file_info.opens
            THEN IF ~bind.ignore_errors
                 THEN [opened |-> FALSE, thrown |-> TRUE, st |-> st1]
                 ELSE OpenNextFileNoReset(bind, st1)
            ELSE [opened |-> TRUE, thrown |-> FALSE,
                  st |-> [st1 EXCEPT
                      !.current_file = index,
                      !.pos = 0,
                      !.current_file_path = file_info.path,
                      !.file_finished = FALSE,
                      !.resolved_selection =
                          IF HasFromEndReferences(bind.line_selection)
                          THEN ResolveFromEnd(bind.line_selection,
                                              CountLinesInFile(file_info))
                          ELSE bind.line_selection]]

\* OpenNextFile: [opened, thrown, st]
RECURSIVE OpenNextFile(_, _)
OpenNextFile(bind, st) ==
    IF st.file_index >= Len(bind.files)
    THEN [opened |-> FALSE, thrown |-> FALSE, st |-> st]
    ELSE LET index == st.file_index + 1
             file_info == bind.files[index]
             st1 == [st EXCEPT !.file_index = index]
         IN IF ~file_info.opens
            THEN IF ~bind.ignore_errors
                 THEN [opened |-> FALSE, thrown |-> TRUE, st |-> st1]
                 ELSE OpenNextFile(bind, st1)
            ELSE [opened |-> TRUE, thrown |-> FALSE,
                  st |-> [st1 EXCEPT
                      !.current_file = index,
                      !.pos = 0,
                      !.current_file_path = file_info.path,
                      !.current_line_number = 0,
                      !.current_byte_offset = 0,
                      !.file_finished = FALSE,
                      !.resolved_selection =
                          IF HasFromEndReferences(bind.line_selection)
                          THEN ResolveFromEnd(bind.line_selection,
                                              CountLinesInFile(file_info))
                          ELSE bind.line_selection]]

\* the loops of ReadTextLinesFunction with a failing read raised as an error
RECURSIVE ReadLoopRaising(_, _, _)
ReadLoopRaising(bind, st, out) ==
    IF Len(out) >= STANDARD_VECTOR_SIZE THEN [st |-> st, out |-> out]
    ELSE IF st.file_finished
    THEN LET o == OpenNextFile(bind, st)
         IN IF o.thrown THEN [st |-> [o.st EXCEPT !.thrown = TRUE], out |-> <<>>]
            ELSE IF ~o.opened THEN [st |-> o.st, out |-> out]
            ELSE ReadLoopRaising(bind, o.st, out)
    ELSE LET file == bind.files[st.current_file]
             line_start_offset == st.current_byte_offset
             r == ReadLine(file, st.pos)
             st1 == [st EXCEPT !.pos = r.pos,
                               !.current_line_number = st.current_line_number + 1,
                               !.current_byte_offset = r.pos]
             n == st1.current_line_number
         IN IF r.thrown
            THEN [st |-> [st EXCEPT !.thrown = TRUE], out |-> <<>>]
            ELSE IF r.line = <<>> /\ r.pos >= Len(file.content)
            THEN ReadLoopRaising(bind, [st EXCEPT !.pos = r.pos, !.file_finished = TRUE], out)
            ELSE IF ~ShouldIncludeLine(st1.resolved_selection, n)
            THEN IF PastAllRanges(st1.resolved_selection, n)
                 THEN ReadLoopRaising(bind, [st1 EXCEPT !.file_finished = TRUE], out)
                 ELSE ReadLoopRaising(bind, st1, out)
            ELSE ReadLoopRaising(bind, st1,
                    Append(out, [line_number |-> n, content |-> r.line,
                                 byte_offset |-> line_start_offset,
                                 file_path |-> st1.current_file_path]))

\* the loops of ReadTextLinesFunction: [st, out]
RECURSIVE ReadLoop(_, _, _)
ReadLoop(bind, st, out) ==
    IF Len(out) >= STANDARD_VECTOR_SIZE THEN [st |-> st, out |-> out]
    ELSE IF st.file_finished
    THEN LET o == OpenNextFile(bind, st)
         IN IF o.thrown THEN [st |-> [o.st EXCEPT !.thrown = TRUE], out |-> <<>>]
            ELSE IF ~o.opened THEN [st |-> o.st, out |-> out]
            ELSE ReadLoop(bind, o.st, out)
    ELSE LET file == bind.files[st.current_file]
             line_start_offset == st.current_byte_offset
             r == ReadLine(file, st.pos)
             st1 == [st EXCEPT !.pos = r.pos,
                               !.current_line_number = st.current_line_number + 1,
                               !.current_byte_offset = r.pos]
             n == st1.current_line_number
         IN IF r.thrown
            THEN ReadLoop(bind, [st EXCEPT !.file_finished = TRUE], out)
            ELSE IF r.line = <<>> /\ r.pos >= Len(file.content)
            THEN ReadLoop(bind, [st EXCEPT !.pos = r.pos, !.file_finished = TRUE], out)
            ELSE IF ~ShouldIncludeLine(st1.resolved_selection, n)
            THEN IF PastAllRanges(st1.resolved_selection, n)
                 THEN ReadLoop(bind, [st1 EXCEPT !.file_finished = TRUE], out)
                 ELSE ReadLoop(bind, st1, out)
            ELSE ReadLoop(bind, st1,
                    Append(out, [line_number |-> n, content |-> r.line,
                                 byte_offset |-> line_start_offset,
                                 file_path |-> st1.current_file_path]))

ReadTextLinesFunction(bind, st) == ReadLoop(bind, st, <<>>)

\* ------------------------------------------------------------------------
\* The scan of parse_lines (src/src/parse_text_lines.cpp)
\* ------------------------------------------------------------------------
\* ParseTextLinesGlobalState()
ParseTextLinesInit ==
    [position |-> 0, current_line_number |-> 0, finished |-> FALSE, thrown |-> FALSE]

\* ExtractLine taking "\r\n" as two line endings
ExtractLineSplitCrLf(text, position) ==
    IF position >= Len(text) THEN [line |-> <<>>, position |-> position]
    ELSE LET ends == {i \in position..(Len(text) - 1) : At(text, i) \in {"\n", "\r"}}
             end == IF ends = {} THEN Len(text)
                    ELSE (CHOOSE i \in ends : \A j \in ends : i <= j) + 1
         IN [line |-> SubStr(text, position, end - position), position |-> end]

\* ExtractLine: [line, position]; the line keeps its line ending
ExtractLine(text, position) ==
    IF position >= Len(text) THEN [line |-> <<>>, position |-> position]
    ELSE LET ends == {i \in position..(Len(text) - 1) : At(text, i) \in {"\n", "\r"}}
             first == IF ends = {} THEN Len(text)
                      ELSE CHOOSE i \in ends : \A j \in ends : i <= j
             end == IF ends = {} THEN Len(text)
                    ELSE IF At(text, first) = "\r" /\ first + 1 < Len(text)
                            /\ At(text, first + 1) = "\n"
                    THEN first + 2
                    ELSE first + 1
         IN [line |-> SubStr(text, position, end - position), position |-> end]

\* the loop of ParseTextLinesFunction: [st, out]
RECURSIVE ParseLoop(_, _, _)
ParseLoop(bind, st, out) ==
    IF ~(Len(out) < STANDARD_VECTOR_SIZE /\ st.position < Len(bind.text))
    THEN [st |-> st, out |-> out]
    ELSE LET line_start_offset == st.position
             r == ExtractLine(bind.text, st.position)
             st1 == [st EXCEPT !.position = r.position,
                               !.current_line_number = st.current_line_number + 1]
             n == st1.current_line_number
         IN IF ~ShouldIncludeLine(bind.line_selection, n)
            THEN IF PastAllRanges(bind.line_selection, n)
                 THEN [st |-> [st1 EXCEPT !.finished = TRUE], out |-> out]
                 ELSE ParseLoop(bind, st1, out)
            ELSE ParseLoop(bind, st1,
                    Append(out, [line_number |-> n, content |-> r.line,
                                 byte_offset |-> line_start_offset]))

ParseTextLinesFunction(bind, st) ==
    IF st.finished THEN [st |-> st, out |-> <<>>]
    ELSE LET r == ParseLoop(bind, st, <<>>)
         IN [st |-> IF r.st.position >= Len(bind.text)
                    THEN [r.st EXCEPT !.finished = TRUE] ELSE r.st,
             out |-> r.out]

\* ------------------------------------------------------------------------
\* Scans: inputs and calls
\* ------------------------------------------------------------------------
ScanFunction(f, bind, st) ==
    IF f = "read_lines" THEN ReadTextLinesFunction(bind, st)
    ELSE ParseTextLinesFunction(bind, st)

ScanInit(f) == IF f = "read_lines" THEN ReadTextLinesInit ELSE ParseTextLinesInit

\* a whole scan: the chunks of the calls up to the first empty one, or the
\* error a call raises
RECURSIVE ScanToEnd(_, _, _, _)
ScanToEnd(f, bind, st, rows) ==
    LET r == ScanFunction(f, bind, st)
    IN IF r.st.thrown THEN [rows |-> rows, thrown |-> TRUE]
       ELSE IF r.out = <<>> THEN [rows |-> rows, thrown |-> FALSE]
       ELSE ScanToEnd(f, bind, r.st, rows \o r.out)

\* the rows of the same scan under the MatchAll selection
AllRows(f, bind) ==
    ScanToEnd(f, [bind EXCEPT !.line_selection = All], ScanInit(f), <<>>).rows

RECURSIVE Repeat(_, _)
Repeat(str, k) == IF k = 0 THEN <<>> ELSE str \o Repeat(str, k - 1)

File(path, content) == [path |-> path, content |-> content, opens |-> TRUE, fail_at |-> -1]

FileSet ==
    { File("six", Repeat(<<"a", "\n">>, 6)),
      File("gap", <<"a", "\n", "\n", "a">>),
      File("empty", <<>>),
      File("blank", <<"\n", "\n">>),
      [File("locked", <<"a", "\n">>) EXCEPT !.opens = FALSE],
      [File("torn", Repeat(<<"a", "\n">>, 3)) EXCEPT !.fail_at = 2] }

FileLists == SeqsUpTo(FileSet, MaxFiles)

Texts == SeqsUpTo({"a", "\n", "\r"}, MaxTextLen) \cup {Repeat(<<"a", "\n">>, 6)}

\* the values the selection of a scan is parsed from
ScanValues ==
    { [tag |-> "null"],
      [tag |-> "int", v |-> 2],
      [tag |-> "str", s |-> <<"2", "-", "3">>],
      [tag |-> "str", s |-> <<"-", "2">>],
      [tag |-> "str", s |-> <<"3", "-">>],
      [tag |-> "str", s |-> <<"2", " ", "+", "/", "-", "1">>],
      [tag |-> "list", items |-> <<[tag |-> "int", v |-> 1], [tag |-> "int", v |-> 3]>>],
      [tag |-> "list", items |-> <<[tag |-> "str", s |-> <<"1", "-">>],
                                   [tag |-> "str", s |-> <<"2", "-", "3">>]>>],
      [tag |-> "list", items |-> <<[tag |-> "int", v |-> 2],
                                   [tag |-> "str", s |-> <<"4", "-", " ", "+", "1">>]>>] }

\* selections a bind can hold: Parse of a value, then the global context
ScanSelections ==
    {With(Parse(v).sel, LAMBDA s :
        IF before > 0 \/ after > 0 THEN AddContextTo(s, before, after) ELSE s) :
        v \in ScanValues, before \in CtxVals, after \in CtxVals}

InitScan ==
    /\ build \in Builds
    /\ status = "start"
    /\ val = NoVal
    /\ sel = All
    /\ base = All
    /\ entry = NoEntry
    /\ ctx = NoCtx
    /\ fn \in {"read_lines", "parse_lines"}
    /\ bind_data \in
          IF fn = "read_lines"
          THEN [files : FileLists, text : {<<>>}, line_selection : ScanSelections,
                ignore_errors : BOOLEAN]
          ELSE [files : {<<>>}, text : Texts, line_selection : ScanSelections,
                ignore_errors : {FALSE}]
    /\ state = ScanInit(fn)
    /\ output = <<>>
    /\ emitted = <<>>
    /\ calls = NoCalls
    /\ input = NoInput

\* the effect of one call of the scan function
Call(r) ==
    /\ state' = r.st
    /\ output' = r.out
    /\ emitted' = emitted \o r.out
    /\ calls' = [n |-> calls.n + 1,
                 empty |-> IF r.out = <<>> THEN calls.empty + 1 ELSE calls.empty]
    /\ UNCHANGED <<build, engineVars, fn, bind_data, input>>

\* one call of ReadTextLinesFunction
CallReadTextLines ==
    /\ fn = "read_lines"
    /\ ~state.thrown
    /\ calls.empty < MaxEmptyCalls
    /\ Call(ReadTextLinesFunction(bind_data, state))

\* one call of ParseTextLinesFunction
CallParseTextLines ==
    /\ fn = "parse_lines"
    /\ calls.empty < MaxEmptyCalls
    /\ Call(ParseTextLinesFunction(bind_data, state))

NextScan == CallReadTextLines \/ CallParseTextLines

SpecScan == InitScan /\ [][NextScan]_vars

\* ------------------------------------------------------------------------
\* read_lines_lateral (src/src/read_lines.cpp): the in/out function is
\* called with an input chunk of paths, again with the same chunk while it
\* returns HAVE_MORE_OUTPUT, and with the next chunk after NEED_MORE_INPUT.
\* A row of a chunk is a file or NullPath.
\* ------------------------------------------------------------------------
NullPath == [null |-> TRUE]

\* ReadTextLinesLateralState(); current_file is the row of the open file
ReadTextLinesLateralInit ==
    [current_file |-> 0, pos |-> 0, current_file_path |-> "", current_line_number |-> 0,
     current_byte_offset |-> 0, file_open |-> FALSE, current_row |-> 0,
     resolved_selection |-> All, thrown |-> FALSE]

\* the state after the file of the current row has been opened
LateralOpenFile(bind, st, file) ==
    [st EXCEPT !.current_file = st.current_row + 1,
               !.pos = 0,
               !.current_file_path = file.path,
               !.current_line_number = 0,
               !.current_byte_offset = 0,
               !.file_open = TRUE,
               !.resolved_selection =
                   IF HasFromEndReferences(bind.line_selection)
                   THEN ResolveFromEnd(bind.line_selection, CountLinesInFile(file))
                   ELSE bind.line_selection]

\* the file is closed and its row is done
LateralCloseFile(st) ==
    [st EXCEPT !.file_open = FALSE, !.current_row = st.current_row + 1]

\* the loop that reads the lines of the open file: [st, out]
RECURSIVE LateralReadLoop(_, _, _)
LateralReadLoop(file, st, out) ==
    IF ~(Len(out) < STANDARD_VECTOR_SIZE /\ st.file_open) THEN [st |-> st, out |-> out]
    ELSE LET line_start_offset == st.current_byte_offset
             r == ReadLine(file, st.pos)
             st1 == [st EXCEPT !.pos = r.pos,
                               !.current_line_number = st.current_line_number + 1,
                               !.current_byte_offset = r.pos]
             n == st1.current_line_number
         IN IF r.thrown THEN [st |-> LateralCloseFile(st), out |-> out]
            ELSE IF r.line = <<>> /\ r.pos >= Len(file.content)
            THEN [st |-> LateralCloseFile([st EXCEPT !.pos = r.pos]), out |-> out]
            ELSE IF ~ShouldIncludeLine(st1.resolved_selection, n)
            THEN IF PastAllRanges(st1.resolved_selection, n)
                 THEN [st |-> LateralCloseFile(st1), out |-> out]
                 ELSE LateralReadLoop(file, st1, out)
            ELSE LateralReadLoop(file, st1,
                    Append(out, [line_number |-> n, content |-> r.line,
                                 byte_offset |-> line_start_offset,
                                 file_path |-> st1.current_file_path]))

\* what a call returns: [st, out, result, log]; the result is "thrown" when
\* the call raises
LateralReturn(st, out, result, log) ==
    [st |-> st, out |-> out, result |-> result, log |-> log]

\* the end of the function with current_row left where the chunk ended
LateralAfterLoopNoReset(st, out, log) ==
    IF st.file_open \/ st.current_row < Len(log.chunk)
    THEN LateralReturn(st, out, "HAVE_MORE_OUTPUT", log.rows)
    ELSE LateralReturn(st, out, "NEED_MORE_INPUT", log.rows)

\* the end of the function, after its main loop
LateralAfterLoop(st, out, log) ==
    IF st.file_open \/ st.current_row < Len(log.chunk)
    THEN LateralReturn(st, out, "HAVE_MORE_OUTPUT", log.rows)
    ELSE LateralReturn([st EXCEPT !.current_row = 0], out, "NEED_MORE_INPUT", log.rows)

\* the main loop; log is [chunk, rows]: the input chunk and the rows this
\* call has taken from it, as <<row, "null" or "open">>
RECURSIVE LateralLoop(_, _, _, _)
LateralLoop(bind, st, out, log) ==
    IF Len(out) >= STANDARD_VECTOR_SIZE THEN LateralAfterLoop(st, out, log)
    ELSE IF ~st.file_open /\ st.current_row >= Len(log.chunk)
    THEN LateralReturn([st EXCEPT !.current_row = 0], out, "NEED_MORE_INPUT", log.rows)
    ELSE IF ~st.file_open /\ log.chunk[st.current_row + 1] = NullPath
    THEN LateralLoop(bind, [st EXCEPT !.current_row = st.current_row + 1], out,
                     [log EXCEPT !.rows = Append(@, <<st.current_row, "null">>)])
    ELSE IF ~st.file_open /\ ~log.chunk[st.current_row + 1].opens
    THEN IF ~bind.ignore_errors
         THEN LateralReturn([st EXCEPT !.thrown = TRUE], <<>>, "thrown", log.rows)
         ELSE LateralLoop(bind, [st EXCEPT !.current_row = st.current_row + 1], out, log)
    ELSE With(IF st.file_open THEN [st |-> st, log |-> log]
              ELSE [st |-> LateralOpenFile(bind, st, log.chunk[st.current_row + 1]),
                    log |-> [log EXCEPT !.rows = Append(@, <<st.current_row, "open">>)]],
              LAMBDA opened :
         With(LateralReadLoop(log.chunk[opened.st.current_file], opened.st, out),
              LAMBDA r :
                 IF ~r.st.file_open /\ r.st.current_row < Len(log.chunk)
                 THEN LateralLoop(bind, r.st, r.out, opened.log)
                 ELSE IF Len(r.out) > 0 \/ r.st.current_row >= Len(log.chunk)
                 THEN LateralAfterLoop(r.st, r.out, opened.log)
                 ELSE LateralLoop(bind, r.st, r.out, opened.log)))

\* ReadTextLinesLateralInOut on the input chunk
ReadTextLinesLateralInOut(bind, st, chunk) ==
    IF Len(chunk) = 0 THEN LateralReturn(st, <<>>, "NEED_MORE_INPUT", <<>>)
    ELSE LateralLoop(bind, st, <<>>, [chunk |-> chunk, rows |-> <<>>])

\* the rows of the input chunks
LateralRows ==
    { NullPath,
      File("six", Repeat(<<"a", "\n">>, 6)),
      File("gap", <<"a", "\n", "\n", "a">>),
      [File("locked", <<"a", "\n">>) EXCEPT !.opens = FALSE],
      [File("torn", Repeat(<<"a", "\n">>, 3)) EXCEPT !.fail_at = 2] }

\* one chunk, or a chunk and the short chunk that follows it
LateralInputs ==
    {<<chunk>> : chunk \in SeqsUpTo(LateralRows, MaxFiles)}
    \cup {<<chunk, next>> : chunk \in SeqsUpTo(LateralRows, MaxFiles),
                            next \in {<<>>, <<NullPath>>, <<File("gap", <<"a", "\n", "\n", "a">>)>>}}

\* the selections ReadTextLinesLateralBind can hold: Parse of the second
\* argument, no global context
LateralSelections == {Parse(v).sel : v \in ScanValues}

\* the scans that read files: read_lines and read_lines_lateral
InitFiles ==
    /\ build \in Builds
    /\ status = "start"
    /\ val = NoVal
    /\ sel = All
    /\ base = All
    /\ entry = NoEntry
    /\ ctx = NoCtx
    /\ fn \in {"read_lines", "read_lines_lateral"}
    /\ bind_data \in
          IF fn = "read_lines"
          THEN [files : FileLists, text : {<<>>}, line_selection : ScanSelections,
                ignore_errors : BOOLEAN]
          ELSE [files : {<<>>}, text : {<<>>}, line_selection : LateralSelections,
                ignore_errors : {FALSE}]
    /\ state = IF fn = "read_lines" THEN ReadTextLinesInit ELSE ReadTextLinesLateralInit
    /\ output = <<>>
    /\ emitted = <<>>
    /\ calls = NoCalls
    /\ input \in IF fn = "read_lines" THEN {NoInput}
                 ELSE {[NoInput EXCEPT !.chunks = chunks, !.index = 1] :
                          chunks \in LateralInputs}

\* one call of ReadTextLinesLateralInOut, with the chunk being consumed
CallReadTextLinesLateral ==
    /\ fn = "read_lines_lateral"
    /\ ~state.thrown
    /\ input.index <= Len(input.chunks)
    /\ With(ReadTextLinesLateralInOut(bind_data, state, input.chunks[input.index]),
            LAMBDA r :
               /\ state' = r.st
               /\ output' = r.out
               /\ emitted' = emitted \o r.out
               /\ calls' = [n |-> calls.n + 1,
                            empty |-> IF r.out = <<>> THEN calls.empty + 1
                                      ELSE calls.empty]
               /\ input' = [input EXCEPT
                              !.result = r.result,
                              !.log = @ \o [i \in 1..Len(r.log) |->
                                              <<input.index, r.log[i][1], r.log[i][2]>>],
                              !.index = IF r.result = "NEED_MORE_INPUT" THEN @ + 1 ELSE @])
    /\ UNCHANGED <<build, engineVars, fn, bind_data>>

NextFiles == CallReadTextLines \/ CallReadTextLinesLateral

SpecFiles == InitFiles /\ [][NextFiles]_vars

\* ------------------------------------------------------------------------
\* Properties of the selection engine
\* ------------------------------------------------------------------------
Lines == 1..IntMax

Orderings(seq) ==
    {[i \in 1..Len(seq) |-> seq[f[i]]] :
        f \in {g \in [1..Len(seq) -> 1..Len(seq)] :
                  \A i, j \in 1..Len(seq) : g[i] = g[j] => i = j}}

\* sorted ascending by start, no two ranges overlapping or adjacent
Canonical(ranges) ==
    \A i \in 1..(Len(ranges) - 1) :
        /\ ranges[i].start < ranges[i + 1].start
        /\ ranges[i + 1].start > ranges[i].end + 1

\* C1: a selection constructed from valid ranges in any order, after any
\* AddContext calls, holds a range list that is sorted by start with no
\* overlapping and no adjacent ranges.
C1_CanonicalAfterMutation ==
    (status = "ok" /\ Origin(val) = "ranges") => Canonical(sel.ranges)

\* C2: for a parsed selection that is not MatchAll, PastAllRanges(n) implies
\* that no line m >= n is included.
C2_EarlyExitSound ==
    (status = "ok" /\ Origin(val) \in {"int", "str", "struct", "list", "path"}
        /\ ~sel.match_all)
    => \A n \in Lines :
          PastAllRanges(sel, n) =>
              \A m \in n..IntMax : ~ShouldIncludeLine(sel, m)

\* the context a struct resolves to
StructBefore(v) ==
    IF HasValue(v.context) THEN v.context
    ELSE IF HasValue(v.before) THEN v.before ELSE 0
StructAfter(v) ==
    IF HasValue(v.context) THEN v.context
    ELSE IF HasValue(v.after) THEN v.after ELSE 0

\* the tail form of a struct: start alone, with optional context fields
IsTailStruct(v) ==
    /\ v.tag = "struct"
    /\ HasValue(v.start) /\ v.start >= 1
    /\ ~HasValue(v.stop)

\* the selection is the one range from `from` to the unbounded end
IsTailFrom(s, from) ==
    /\ ~s.match_all
    /\ s.ranges[Len(s.ranges)].end = IntMax
    /\ \A n \in from..IntMax : ShouldIncludeLine(s, n)

\* C5: an after-context on a tail range [N, unbounded], given per entry in a
\* string or a struct or globally by AddContext, leaves the end unbounded:
\* every line from max(1, N - before) on is included.
C5_TailContextSaturates ==
    /\ (status = "ok" /\ val.tag = "str" /\ entry.range.end = IntMax)
        => IsTailFrom(sel, Max(1, entry.range.start - entry.before))
    /\ (status = "ok" /\ IsTailStruct(val))
        => IsTailFrom(sel, Max(1, val.start - StructBefore(val)))
    /\ (status = "ok" /\ ctx.n >= 1 /\ ~base.match_all /\ Len(base.ranges) = 1
            /\ base.ranges[1].end = IntMax)
        => IsTailFrom(sel, Max(1, base.ranges[1].start - ctx.before))

\* C6: the selection built from a list of valid ranges includes line n
\* exactly when one of the input ranges contains n.
C6_MembershipIsUnion ==
    val.tag = "ranges" =>
        \A n \in Lines :
            ShouldIncludeLine(sel, n)
            <=> \E i \in 1..Len(val.ranges) : Contains(val.ranges[i], n)

\* an unsorted input of an unbounded range and a range below it, apart by a
\* gap: the selection holds both, sorted
C6_Witness ==
    /\ val.tag = "ranges"
    /\ Len(val.ranges) = 2
    /\ val.ranges[1].end = IntMax
    /\ val.ranges[2].end + 1 < val.ranges[1].start
    /\ sel.ranges = <<val.ranges[2], val.ranges[1]>>

\* the lines a list value and its items select agree, in any order of the items
ListIsUnionOfItems ==
    \A n \in Lines :
        /\ ShouldIncludeLine(sel, n)
           <=> \E i \in 1..Len(val.items) :
                  ShouldIncludeLine(Parse(val.items[i]).sel, n)
        /\ \A items \in Orderings(val.items) :
              ShouldIncludeLine(Parse([tag |-> "list", items |-> items]).sel, n)
              <=> ShouldIncludeLine(sel, n)

\* C7 as claimed: every list whose items parse, the empty list included,
\* selects exactly the union of the lines its items select.
C7_ListIsUnion_Claimed ==
    (val.tag = "list" /\ status = "ok") => ListIsUnionOfItems

\* C7 amended: every non-empty list whose items parse selects exactly the
\* union of the lines its items select, in any order of the items; the empty
\* list gives MatchAll.
C7_ListIsUnion ==
    (val.tag = "list" /\ status = "ok") =>
        IF val.items = <<>> THEN sel = All ELSE ListIsUnionOfItems

\* a list of a spec string and a struct with two lines, merged into one range
C7_Witness ==
    /\ val.tag = "list" /\ status = "ok"
    /\ Len(val.items) = 2
    /\ val.items[1].tag = "str"
    /\ val.items[2].tag = "struct"
    /\ Len(sel.ranges) = 1

\* C8: every permutation of a list of valid ranges merges to the same list.
C8_MergeOrderIndependent ==
    val.tag = "ranges" =>
        \A p \in Orderings(val.ranges) : MergeRanges(p) = sel.ranges

\* every range is valid and ends below the sentinel
FiniteEnds(s) ==
    /\ ~s.match_all
    /\ \A i \in 1..Len(s.ranges) :
          s.ranges[i].start <= s.ranges[i].end /\ s.ranges[i].end < IntMax

\* C9: on a selection with finite ends, two AddContext calls give the range
\* list of the one call with the summed amounts, AddContext(0, 0) changes
\* nothing, and a global AddContext after a per-entry context widens the
\* entry by the sum of both.
C9_ContextAdditive ==
    (status = "ok" /\ FiniteEnds(base)) =>
        /\ ctx.n = 2 => sel = AddContextTo(base, ctx.before, ctx.after)
        /\ (ctx.n >= 1 /\ ctx.before = 0 /\ ctx.after = 0) => sel = base
        /\ (ctx.n = 1 /\ entry.has) =>
              sel.ranges = <<LineRange(
                  Max(1, entry.range.start - entry.before - ctx.before),
                  entry.range.end + entry.after + ctx.after)>>

\* C10: a struct with start and stop both given yields the range
\* [start, effective_stop] when start >= 1 and effective_stop >= start and an
\* error otherwise; a struct with start alone is an error when start < 1.
C10_StructRangeValidation ==
    LET effective_stop == IF HasValue(val.inclusive) /\ val.inclusive = 0
                          THEN val.stop - 1 ELSE val.stop
    IN  /\ (val.tag = "struct" /\ HasValue(val.start) /\ HasValue(val.stop)
                /\ StructBefore(val) >= 0 /\ StructAfter(val) >= 0)
           => IF val.start >= 1 /\ effective_stop >= val.start
              THEN /\ status = "ok"
                   /\ sel.ranges = <<ApplyContextToRange(
                          LineRange(val.start, effective_stop),
                          StructBefore(val), StructAfter(val))>>
              ELSE status = "error"
        /\ (val.tag = "struct" /\ HasValue(val.start) /\ val.start < 1
                /\ ~HasValue(val.stop) /\ ~HasValue(val.line)
                /\ val.lines \in {<<Null>>, <<Absent>>})
           => status = "error"

\* ------------------------------------------------------------------------
\* Properties of the scans
\* ------------------------------------------------------------------------
IsPrefix(s, t) == Len(s) <= Len(t) /\ SubSeq(t, 1, Len(s)) = s

\* the rows of the MatchAll scan whose line number the selection includes
FilteredRows ==
    LET Included(row) == ShouldIncludeLine(bind_data.line_selection, row.line_number)
    IN SelectSeq(AllRows(fn, bind_data), Included)

\* the scan, run to its end, raises an error (a file that cannot be opened)
ScanRaises == ScanToEnd(fn, bind_data, ScanInit(fn), <<>>).thrown

\* the scan has returned an empty chunk: the engine calls it no more
ScanEnded == calls.n > 0 /\ output = <<>> /\ ~state.thrown

\* read_lines rewrites the selection per file when it holds from-end
\* references; the scan properties are stated for the other scans
FromEndResolved ==
    fn = "read_lines" /\ HasFromEndReferences(bind_data.line_selection)

\* C3: in a scan of read_lines or parse_lines that raises no error, the rows
\* emitted over all calls are exactly the rows of the same scan under MatchAll
\* whose line number the selection includes: the same line_number, content
\* and byte_offset, once each, in order, whatever the chunk boundaries.
C3_FilterEquivalence ==
    (fn # "none" /\ ~ScanRaises /\ ~FromEndResolved) =>
        /\ IsPrefix(emitted, FilteredRows)
        /\ ScanEnded => emitted = FilteredRows

\* the selection the scan of the current input tests its lines against
CurrentSelection ==
    IF fn = "read_lines" THEN state.resolved_selection ELSE bind_data.line_selection

\* C4: under a selection that is not MatchAll and whose last range ends at a
\* finite line E, at most E + 1 lines of the current input are read.
C4_ShortCircuit ==
    LET s == CurrentSelection
        E == s.ranges[Len(s.ranges)].end
    IN (fn # "none" /\ ~FromEndResolved /\ ~s.match_all /\ Len(s.ranges) > 0
           /\ E >= 1 /\ E < IntMax) =>
           state.current_line_number <= E + 1

\* ------------------------------------------------------------------------
\* Struct records: Parse on one struct, over all combinations of its fields
\* ------------------------------------------------------------------------
\* start and stop: missing, NULL, zero or a line number; the other selectors
\* missing, NULL or valid; the context fields missing, NULL, negative or not
StructRecords ==
    { [NoFields EXCEPT !.start = f.start, !.stop = f.stop, !.line = f.line,
                       !.lines = f.lines, !.inclusive = f.inclusive,
                       !.before = f.before, !.after = f.after,
                       !.context = f.context] :
      f \in [start : {Absent, Null} \cup (0..MaxLine),
             stop : {Absent, Null} \cup (0..MaxLine),
             line : {Absent, Null, 2},
             lines : {<<Absent>>, <<Null>>, <<>>, <<3, 1>>},
             inclusive : {Absent, Null, 0, 1},
             before : {Absent, -1, MaxCtx},
             after : {Absent, -1, 0},
             context : {Absent, Null, -1, 0, MaxCtx}] }

\* LineSelection::Parse(value) on a struct record
ParseStruct ==
    /\ status = "start"
    /\ \E value \in StructRecords :
        With(Parse(value), LAMBDA r :
           /\ val' = value
           /\ status' = IF r.ok THEN "ok" ELSE "error"
           /\ sel' = r.sel
           /\ base' = r.sel)
    /\ UNCHANGED <<build, entry, ctx, scanVars>>

SpecStruct == Init /\ [][ParseStruct]_vars

\* ------------------------------------------------------------------------
\* Properties of struct records
\* ------------------------------------------------------------------------
HasLines(v) == v.lines \notin {<<Absent>>, <<Null>>, <<>>}

\* the selector group of a record, by precedence
Group(v) ==
    IF HasValue(v.start) /\ HasValue(v.stop) THEN "range"
    ELSE IF HasValue(v.start) THEN "tail"
    ELSE IF HasValue(v.stop) THEN "head"
    ELSE IF HasValue(v.line) THEN "line"
    ELSE IF HasLines(v) THEN "lines"
    ELSE "none"

\* the record with the selector fields outside group g removed
OnlyGroup(v, g) ==
    [v EXCEPT !.start = IF g \in {"range", "tail"} THEN @ ELSE Absent,
              !.stop = IF g \in {"range", "head"} THEN @ ELSE Absent,
              !.line = IF g = "line" THEN @ ELSE Absent,
              !.lines = IF g = "lines" THEN @ ELSE <<Absent>>]

\* every selector value the record gives is a line number >= 1
ValidSelectors(v) ==
    /\ HasValue(v.start) => v.start >= 1
    /\ HasValue(v.stop) => v.stop >= 1
    /\ HasValue(v.line) => v.line >= 1
    /\ HasLines(v) => \A i \in 1..Len(v.lines) : v.lines[i] >= 1

\* the stop of a record as the last included line
EffectiveStop(v) ==
    IF HasValue(v.inclusive) /\ v.inclusive = 0 THEN v.stop - 1 ELSE v.stop

\* the ranges group g of the record selects, before any context; <<>> when
\* the group is in error
GroupRanges(v, g) ==
    IF g = "range"
    THEN IF EffectiveStop(v) >= v.start THEN <<LineRange(v.start, EffectiveStop(v))>>
         ELSE <<>>
    ELSE IF g = "tail" THEN <<LineRange(v.start, IntMax)>>
    ELSE IF g = "head"
    THEN IF EffectiveStop(v) >= 1 THEN <<LineRange(1, EffectiveStop(v))>> ELSE <<>>
    ELSE IF g = "line" THEN <<LineRange(v.line, v.line)>>
    ELSE IF g = "lines" THEN [i \in 1..Len(v.lines) |-> LineRange(v.lines[i], v.lines[i])]
    ELSE <<>>

NoNegativeContext(v) ==
    /\ HasValue(v.before) => v.before >= 0
    /\ HasValue(v.after) => v.after >= 0
    /\ HasValue(v.context) => v.context >= 0

\* C11: in a struct record whose selector values are all >= 1, the first
\* group present in the order start+stop, start, stop, line, lines decides the
\* result alone: the record parses as it does with the fields of the other
\* groups removed, to the ranges of that group, and a record with no group
\* is an error.
C11_StructPrecedence ==
    (val.tag = "struct" /\ ValidSelectors(val) /\ NoNegativeContext(val)) =>
        /\ Parse(OnlyGroup(val, Group(val))) = [ok |-> status = "ok", sel |-> sel]
        /\ Group(val) = "none" => status = "error"
        /\ (StructBefore(val) = 0 /\ StructAfter(val) = 0) =>
              IF GroupRanges(val, Group(val)) = <<>> THEN status = "error"
              ELSE status = "ok" /\ sel = Selection(GroupRanges(val, Group(val)))

\* a record with every selector group present and valid: the full range wins
C11_Witness ==
    /\ val.tag = "struct" /\ status = "ok"
    /\ HasValue(val.start) /\ HasValue(val.stop) /\ HasValue(val.line) /\ HasLines(val)
    /\ val.start < val.stop
    /\ StructBefore(val) = 0 /\ StructAfter(val) = 0
    /\ sel.ranges = <<LineRange(val.start, val.stop)>>

\* the range widened by the context of the record, in plain integers
Widened(range, v) ==
    LineRange(Max(1, range.start - StructBefore(v)), range.end + StructAfter(v))

\* C12: with `inclusive` false the stop of a full range or head record is
\* exclusive: the range ends at stop - 1 and an empty range is an error; with
\* `inclusive` true, NULL or missing it ends at stop; on the tail, line and
\* lines forms `inclusive` changes nothing.
C12_ExclusiveStop ==
    (val.tag = "struct" /\ ValidSelectors(val) /\ NoNegativeContext(val)) =>
        IF Group(val) \in {"range", "head"}
        THEN LET from == IF Group(val) = "range" THEN val.start ELSE 1
                 to == IF HasValue(val.inclusive) /\ val.inclusive = 0
                       THEN val.stop - 1 ELSE val.stop
             IN IF to < from THEN status = "error"
                ELSE /\ status = "ok"
                     /\ sel.ranges = <<Widened(LineRange(from, to), val)>>
        ELSE Parse([val EXCEPT !.inclusive = Absent]) = [ok |-> status = "ok", sel |-> sel]

\* a full range record with an exclusive stop and a context
C12_Witness ==
    /\ val.tag = "struct" /\ status = "ok"
    /\ HasValue(val.start) /\ HasValue(val.stop) /\ val.inclusive = 0
    /\ val.start < val.stop
    /\ StructBefore(val) > 0
    /\ sel.ranges = <<Widened(LineRange(val.start, val.stop - 1), val)>>

\* the record resolves to a group whose ranges are not empty
Resolvable(v) == ValidSelectors(v) /\ GroupRanges(v, Group(v)) # <<>>

\* the selection includes exactly the lines within c lines of a range of the
\* record's group
WidenedBy(s, v, c) ==
    \A n \in Lines :
        ShouldIncludeLine(s, n)
        <=> \E i \in 1..Len(GroupRanges(v, Group(v))) :
               LET range == GroupRanges(v, Group(v))[i]
               IN Max(1, range.start - c) <= n /\ n <= range.end + c

\* C13: a struct record with `context` present parses, whatever its `before`
\* and `after` fields hold, and every range it gives is widened by exactly
\* `context` lines on both sides, the start clamped at 1.
C13_ContextOverrides ==
    (val.tag = "struct" /\ HasValue(val.context) /\ val.context >= 0
        /\ Resolvable(val))
    => /\ status = "ok"
       /\ WidenedBy(sel, val, val.context)

\* ------------------------------------------------------------------------
\* Binding: ReadTextLinesBind (src/src/read_lines.cpp) and ParseTextLinesBind
\* (src/src/parse_text_lines.cpp)
\* The file system is the set of the paths that name a file; a named
\* parameter is an int64 or Absent (not given).
\* ------------------------------------------------------------------------
\* the files a path matches (patterns match by name only)
GlobFilesCompat(fs, path) == IF path \in fs THEN <<path>> ELSE <<>>

\* the loop over the named parameters before, after and context; the map of
\* the parameters has no fixed order, context_first tells whether `context`
\* is visited before `before` and `after`
NamedContext(before, after, context, context_first) ==
    LET given_before == IF before # Absent THEN before ELSE 0
        given_after == IF after # Absent THEN after ELSE 0
    IN IF context = Absent THEN [before |-> given_before, after |-> given_after]
       ELSE IF context_first
       THEN [before |-> IF before # Absent THEN before ELSE context,
             after |-> IF after # Absent THEN after ELSE context]
       ELSE [before |-> context, after |-> context]

\* the selection of the second positional argument of read_lines, which
\* counts when it is given and not NULL: [ok, sel, has_explicit_lines]
PositionalLines(lines) ==
    IF lines = NoVal \/ lines.tag = "null"
    THEN [ok |-> TRUE, sel |-> All, has_explicit_lines |-> FALSE]
    ELSE With(Parse(lines), LAMBDA r :
            [ok |-> r.ok, sel |-> r.sel, has_explicit_lines |-> TRUE])

\* the selection of the named parameter `lines`, which counts whenever it is
\* given: [ok, sel, has_explicit_lines]
ExplicitLines(lines) ==
    IF lines = NoVal THEN [ok |-> TRUE, sel |-> All, has_explicit_lines |-> FALSE]
    ELSE With(Parse(lines), LAMBDA r :
            [ok |-> r.ok, sel |-> r.sel, has_explicit_lines |-> TRUE])

\* PathFiles trying the extracted path before the literal one
PathFilesExtractedFirst(fs, input_path) ==
    With(ParsePathWithLineSpec(input_path), LAMBDA parsed_result :
       IF parsed_result.path # input_path
          /\ GlobFilesCompat(fs, parsed_result.path) # <<>>
       THEN [files |-> GlobFilesCompat(fs, parsed_result.path),
             path_line_selection |-> parsed_result.sel]
       ELSE [files |-> GlobFilesCompat(fs, input_path), path_line_selection |-> All])

\* the files and the selection the path gives: [files, path_line_selection]
PathFiles(fs, input_path) ==
    With(GlobFilesCompat(fs, input_path), LAMBDA files :
       IF files # <<>> THEN [files |-> files, path_line_selection |-> All]
       ELSE With(ParsePathWithLineSpec(input_path), LAMBDA parsed_result :
               IF parsed_result.path # input_path
                  /\ GlobFilesCompat(fs, parsed_result.path) # <<>>
               THEN [files |-> GlobFilesCompat(fs, parsed_result.path),
                     path_line_selection |-> parsed_result.sel]
               ELSE [files |-> <<>>, path_line_selection |-> All]))

\* the global context applied at the end of both bind functions
BindContext(line_selection, before_context, after_context) ==
    IF before_context > 0 \/ after_context > 0
    THEN AddContextTo(line_selection, before_context, after_context)
    ELSE line_selection

\* ReadTextLinesBind with the selection of the path put before that of the
\* lines argument
ReadTextLinesBindPathFirst(fs, input_path, lines, named_lines, named) ==
    With(PositionalLines(lines), LAMBDA positional :
    With(IF named_lines = NoVal THEN positional ELSE ExplicitLines(named_lines),
         LAMBDA explicit :
    With(PathFiles(fs, input_path), LAMBDA found :
    With(IF ~found.path_line_selection.match_all
         THEN found.path_line_selection ELSE explicit.sel, LAMBDA line_selection :
       [ok |-> positional.ok /\ explicit.ok, files |-> found.files,
        base |-> line_selection,
        line_selection |-> BindContext(line_selection, named.before, named.after)]))))

\* ReadTextLinesBind on the path, the second positional argument `lines`, the
\* named parameter `named_lines` (NoVal: not given) and the named context:
\* [ok, files, base (the selection before the global context), line_selection]
ReadTextLinesBind(fs, input_path, lines, named_lines, named) ==
    With(PositionalLines(lines), LAMBDA positional :
    With(IF named_lines = NoVal THEN positional ELSE ExplicitLines(named_lines),
         LAMBDA explicit :
    With(PathFiles(fs, input_path), LAMBDA found :
    With(IF ~explicit.has_explicit_lines /\ ~found.path_line_selection.match_all
         THEN found.path_line_selection ELSE explicit.sel, LAMBDA line_selection :
       [ok |-> positional.ok /\ explicit.ok, files |-> found.files,
        base |-> line_selection,
        line_selection |-> BindContext(line_selection, named.before, named.after)]))))

\* ParseTextLinesBind: [ok, files, base, line_selection]
ParseTextLinesBind(lines, named) ==
    With(ExplicitLines(lines), LAMBDA explicit :
       [ok |-> explicit.ok, files |-> <<>>, base |-> explicit.sel,
        line_selection |-> BindContext(explicit.sel, named.before, named.after)])

\* inputs of the bind functions
BindFiles == {<<"f">>, <<"f", ":", "2">>}
BindPaths ==
    { <<"f">>, <<"f", ":", "2">>, <<"f", ":", "2", "-", "3">>, <<"g", ":", "2">>,
      <<"f", ":", "x">>, <<"f", ":", "3", "-", "2">> }
BindLines ==
    { NoVal, [tag |-> "null"], [tag |-> "int", v |-> 2],
      [tag |-> "str", s |-> <<"2", "-", "3">>],
      [tag |-> "str", s |-> <<"2", " ", "+", "/", "-", "-", "1">>],
      [tag |-> "str", s |-> <<"2", " ", "-", "-", "1">>],
      [NoFields EXCEPT !.line = 2, !.before = -1],
      [NoFields EXCEPT !.line = 2, !.context = -1],
      [NoFields EXCEPT !.start = 2, !.stop = 3, !.after = MaxCtx],
      [NoFields EXCEPT !.lines = <<1, 3>>],
      [NoFields EXCEPT !.lines = <<2, 0>>],
      [NoFields EXCEPT !.line = 2, !.lines = <<0>>],
      [tag |-> "list", items |-> <<[tag |-> "int", v |-> 1], [tag |-> "int", v |-> 3]>>],
      [tag |-> "list", items |-> <<[tag |-> "int", v |-> 2], [tag |-> "int", v |-> 0]>>],
      [tag |-> "list", items |-> <<[tag |-> "str", s |-> <<"2", "-", "3">>],
                                   [tag |-> "str", s |-> <<"3", "-", "2">>]>>],
      [tag |-> "list", items |-> <<[tag |-> "int", v |-> 1],
                                   [NoFields EXCEPT !.lines = <<3, 0>>]>>] }
ParamVals == {Absent} \cup ((-1)..MaxCtx)

\* the effect of a bind call on the inputs `args`: the bind data it returns,
\* or nothing when Parse has thrown
Bound(args, r) ==
    /\ val' = args
    /\ status' = IF r.ok THEN "ok" ELSE "error"
    /\ IF r.ok
       THEN /\ base' = r.base
            /\ sel' = r.line_selection
            /\ bind_data' = [files |-> r.files, text |-> <<>>,
                             line_selection |-> r.line_selection,
                             ignore_errors |-> FALSE]
       ELSE UNCHANGED <<base, sel, bind_data>>
    /\ UNCHANGED <<build, entry, ctx, fn, state, output, emitted, calls, input>>

\* read_lines(path, lines, before := .., after := .., context := ..) or
\* read_lines(path, lines := .., ..): the lines argument is passed by
\* position or by name
BindReadTextLines ==
    /\ status = "start"
    /\ \E fs \in SUBSET BindFiles, input_path \in BindPaths, lines \in BindLines,
          before \in ParamVals, after \in ParamVals, context \in ParamVals,
          context_first \in BOOLEAN :
       \E by_name \in IF lines = NoVal THEN {FALSE} ELSE BOOLEAN :
        Bound([tag |-> "read_lines", fs |-> fs, path |-> input_path, lines |-> lines,
               by_name |-> by_name,
               before |-> before, after |-> after, context |-> context],
              ReadTextLinesBind(fs, input_path,
                                IF by_name THEN NoVal ELSE lines,
                                IF by_name THEN lines ELSE NoVal,
                                NamedContext(before, after, context, context_first)))

\* parse_lines(text, lines := .., before := .., after := .., context := ..)
BindParseTextLines ==
    /\ status = "start"
    /\ \E lines \in BindLines, before \in ParamVals, after \in ParamVals,
          context \in ParamVals, context_first \in BOOLEAN :
        Bound([tag |-> "parse_lines", fs |-> {}, path |-> <<>>, lines |-> lines,
               by_name |-> lines # NoVal,
               before |-> before, after |-> after, context |-> context],
              ParseTextLinesBind(lines, NamedContext(before, after, context, context_first)))

NextBind == BindReadTextLines \/ BindParseTextLines

SpecBind == Init /\ [][NextBind]_vars

\* ------------------------------------------------------------------------
\* Properties of the bind functions
\* ------------------------------------------------------------------------
IsBind == val.tag \in {"read_lines", "parse_lines"}

\* a context amount of the call is negative: a named parameter, a field of
\* the lines record, or the amount of the suffix of the lines string
NegativeParam == val.before \in IntMin..(-1) \/ val.after \in IntMin..(-1)
                    \/ val.context \in IntMin..(-1)
NegativeField ==
    /\ val.lines.tag = "struct"
    /\ \/ val.lines.before \in IntMin..(-1) \/ val.lines.after \in IntMin..(-1)
       \/ val.lines.context \in IntMin..(-1)
NegativeSuffix ==
    /\ val.lines.tag = "str"
    /\ \E i \in 1..(Len(val.lines.s) - 1) :
          val.lines.s[i] \in {"+", "-", "/"} /\ val.lines.s[i + 1] = "-"
          /\ \E k \in 1..(i - 1) : val.lines.s[k] = " "

\* every line of the selection before the global context is in the bound one
NotNarrowed == \A n \in Lines : ShouldIncludeLine(base, n) => ShouldIncludeLine(sel, n)

\* C14: a negative context amount is rejected wherever it is supplied (a
\* field of the record, the suffix of the string, the named parameters before,
\* after and context), and no bound selection is narrower than the selection
\* before the context was added.
C14_NegativeContextRejected ==
    IsBind =>
       /\ (NegativeParam \/ NegativeField \/ NegativeSuffix) => status = "error"
       /\ status = "ok" => NotNarrowed

\* ------------------------------------------------------------------------
\* Properties of ParsePathWithLineSpec
\* ------------------------------------------------------------------------
\* the text a line spec can start with: a digit, '-' and a digit, or '...'
StartsLineSpec(rest) ==
    /\ rest # <<>>
    /\ \/ IsDigit(rest[1])
       \/ rest[1] = "-" /\ Len(rest) >= 2 /\ IsDigit(rest[2])
       \/ Len(rest) >= 3 /\ SubSeq(rest, 1, 3) = <<".", ".", ".">>

\* the colons of s (1-based) that such a text follows
SplitPoints(s) ==
    {k \in 1..Len(s) : s[k] = ":" /\ StartsLineSpec(SubSeq(s, k + 1, Len(s)))}

\* the result for the input s when the last such colon is at k (0: none) and
\* the text after it parses to r
IsSplitAt(s, k, r) ==
    IF k = 0 \/ ~r.ok
    THEN val.path = s /\ sel = All
    ELSE /\ val.path = SubSeq(s, 1, k - 1)
         /\ sel = [ranges |-> <<r.range>>, match_all |-> FALSE]

\* C15: ParsePathWithLineSpec never raises; it returns the input and MatchAll,
\* or the prefix before the last colon that a digit, '-' and a digit, or '...'
\* follows, with a selection of exactly the one range parsed from the text
\* after that colon; a failed parse gives the unsplit result, and the path
\* returned is the input exactly when the selection is MatchAll.
C15_PathSplit ==
    val.tag = "path" =>
       /\ status = "ok"
       /\ (val.path = val.s) <=> sel.match_all
       /\ With(IF SplitPoints(val.s) = {} THEN 0
               ELSE CHOOSE k \in SplitPoints(val.s) : \A j \in SplitPoints(val.s) : k >= j,
               LAMBDA k : IsSplitAt(val.s, k,
                             ParseRangeString(SubSeq(val.s, k + 1, Len(val.s)))))

\* a path with two such colons is split at the last one
C15_Witness ==
    /\ val.tag = "path"
    /\ val.s = <<"a", ":", "1", ":", "3", "-">>
    /\ val.path = <<"a", ":", "1">>
    /\ sel = [ranges |-> <<LineRange(3, IntMax)>>, match_all |-> FALSE]

\* ------------------------------------------------------------------------
\* Properties of the path of read_lines
\* ------------------------------------------------------------------------
\* the call has an explicit lines argument: a second positional argument
\* that is not NULL, or the named parameter `lines`
HasExplicitLines == val.lines # NoVal /\ (val.by_name \/ val.lines.tag # "null")

\* the selection the call has without its path: that of the lines argument
LinesSelection == ExplicitLines(val.lines).sel

\* the call has bound the files `files`; the path has given no selection
BoundLiteral(files) == bind_data.files = files /\ base = LinesSelection

\* the call has bound the file `path` and the selection of the path, which
\* the lines argument replaces when it is given
BoundExtracted(path, path_line_selection) ==
    /\ bind_data.files = <<path>>
    /\ base = IF HasExplicitLines THEN LinesSelection ELSE path_line_selection

\* C16: in the binding of read_lines the literal path comes first: when it
\* matches a file, the files are those of the literal path and the path gives
\* no selection; the extracted prefix and its selection are used only when the
\* literal path matches no file and the prefix matches one; when neither
\* matches, the file list is empty and the path gives no selection.
C16_LiteralPathFirst ==
    (val.tag = "read_lines" /\ status = "ok") =>
       With(ParsePathWithLineSpec(val.path), LAMBDA parsed :
          IF val.path \in val.fs THEN BoundLiteral(<<val.path>>)
          ELSE IF parsed.path # val.path /\ parsed.path \in val.fs
          THEN BoundExtracted(parsed.path, parsed.sel)
          ELSE BoundLiteral(<<>>))

\* both the literal path and its prefix name a file, and the literal is bound
C16_Witness ==
    /\ val.tag = "read_lines" /\ status = "ok"
    /\ val.path = <<"f", ":", "2">>
    /\ val.fs = {<<"f">>, <<"f", ":", "2">>}
    /\ val.lines = NoVal
    /\ bind_data.files = <<val.path>>
    /\ base = All

\* ------------------------------------------------------------------------
\* Properties of ParseRangeString
\* ------------------------------------------------------------------------
\* the string parsed, and what came of it
IsString == val.tag = "str"
Raised == status = "error"
IsRange(start, end) ==
    status = "ok" /\ sel = [ranges |-> <<LineRange(start, end)>>, match_all |-> FALSE]

\* the shapes with a separator, as <<dash form, ellipsis form, start, end>>
Shapes(n, m) ==
    { <<Digits(n) \o <<"-">> \o Digits(m), Digits(n) \o <<".", ".", ".">> \o Digits(m), n, m>>,
      <<<<"-">> \o Digits(n), <<".", ".", ".">> \o Digits(n), 1, n>>,
      <<Digits(n) \o <<"-">>, Digits(n) \o <<".", ".", ".">>, n, IntMax>> }

AllSuffixes == UNION {Suffixes(b, a) : b \in CtxVals, a \in CtxVals}

\* the string s parses as the string parsed has done
SameAs(s) ==
    With(Parse([tag |-> "str", s |-> s]), LAMBDA r :
       IF r.ok THEN status = "ok" /\ sel = r.sel ELSE Raised)

\* C17: for 1 <= N <= M, "N" is [N,N]; "N-M" and "N...M" are [N,M]; "-N" and
\* "...N" are [1,N]; "N-" and "N..." are [N, unbounded]; the dash form and
\* the ellipsis form of a shape give the same result, also when the same
\* context suffix follows both.
C17_TextualForms ==
    IsString =>
       \A n \in 1..MaxLine, m \in 1..MaxLine :
          n <= m =>
             /\ val.s = Digits(n) => IsRange(n, n)
             /\ \A shape \in Shapes(n, m) :
                   /\ val.s \in {shape[1], shape[2]} => IsRange(shape[3], shape[4])
                   /\ \A suffix \in AllSuffixes :
                         /\ val.s = shape[1] \o suffix => SameAs(shape[2] \o suffix)
                         /\ val.s = shape[2] \o suffix => SameAs(shape[1] \o suffix)

\* a tail in the dash form with a context suffix
C17_Witness ==
    /\ IsString
    /\ val.s = <<"2", "-", " ", "-", "1">>
    /\ IsRange(1, IntMax)

\* the line specs of every shape, as <<spec, start, end>>
SpecShapes(n, m) ==
    {<<Digits(n), n, n>>}
    \cup {<<shape[1], shape[3], shape[4]>> : shape \in Shapes(n, m)}
    \cup {<<shape[2], shape[3], shape[4]>> : shape \in Shapes(n, m)}

\* the suffixes that ask for b lines before and a lines after
OrderedSuffixes(b, a) ==
    { <<" ", "-">> \o Digits(b) \o <<" ", "+">> \o Digits(a),
      <<" ", "+">> \o Digits(a) \o <<" ", "-">> \o Digits(b),
      <<" ", "-">> \o Digits(b) \o <<"+">> \o Digits(a),
      <<" ", "+">> \o Digits(a) \o <<"-">> \o Digits(b) }

\* the suffixes that ask for c lines on both sides
SymmetricSuffixes(c) ==
    {<<" ", "+", "/", "-">> \o Digits(c), <<" ", "-", "/", "+">> \o Digits(c)}

\* C18: for every shape of line spec and all B, A >= 0 with a finite result,
\* "<spec> -B +A", "<spec> +A -B", "<spec> -B+A" and "<spec> +A-B" parse to
\* [max(1, start - B), end + A], and "<spec> +/-C" and "<spec> -/+C" parse to
\* [max(1, start - C), end + C].
C18_SuffixOrderAndSpacing ==
    IsString =>
       \A n \in 1..MaxLine, m \in 1..MaxLine, b \in CtxVals, a \in CtxVals :
          n <= m =>
             \A shape \in SpecShapes(n, m) :
                /\ (shape[3] + a <= IntMax
                    /\ \E suffix \in OrderedSuffixes(b, a) : val.s = shape[1] \o suffix)
                   => IsRange(Max(1, shape[2] - b), shape[3] + a)
                /\ (shape[3] + a <= IntMax /\ a = b
                    /\ \E suffix \in SymmetricSuffixes(a) : val.s = shape[1] \o suffix)
                   => IsRange(Max(1, shape[2] - a), shape[3] + a)

\* the string parsed is a valid line spec followed by one of `suffixes`
HasSuffixOf(suffixes) ==
    \E spec \in ValidLineSpecs, suffix \in suffixes : val.s = spec \o suffix

\* C19: ParseRangeString raises an error for a single line number below 1, a
\* full range whose end is below its start, a head form with N < 1, a context
\* suffix in which '-' or '+' is not followed by digits, and a context suffix
\* with two before markers or two after markers.
C19_RangeStringErrors ==
    IsString =>
       /\ val.s \in OutOfOrderStrings => Raised
       /\ HasSuffixOf(DanglingSuffixes) => Raised
       /\ HasSuffixOf(DuplicateSuffixes) => Raised

\* C20: ParseRangeString raises an error whenever a position where the
\* grammar expects a number holds text that is not entirely decimal digits
\* (letters or separators after the digits of a line number, a range bound or
\* a symmetric context amount); no such string yields a range.
C20_MalformedNumerals ==
    (IsString /\ val.s \in MalformedNumerals) => Raised

\* ------------------------------------------------------------------------
\* Properties of a failing Parse
\* ------------------------------------------------------------------------
\* an item of the list v fails when it is parsed alone
FailingItem(v) ==
    v.tag = "list" /\ \E i \in 1..Len(v.items) : ~Parse(v.items[i]).ok

\* an entry of the lines list of the record v is not a line number
FailingEntry(v) ==
    v.tag = "struct" /\ HasLines(v) /\ \E i \in 1..Len(v.lines) : v.lines[i] < 1

\* the call has raised and has bound nothing
NothingBound == Raised /\ bind_data = NoBind /\ sel = All /\ base = All

\* C21 as claimed: if any item of a list, or any entry of the lines list of
\* a record, fails to parse or validate, Parse raises and yields no
\* selection, and the binding does not proceed.
C21_AllOrNothing_Claimed ==
    (IsBind /\ (FailingItem(val.lines) \/ FailingEntry(val.lines))) => NothingBound

\* C21: if any item of a list fails, or any entry of the lines list of a
\* record whose selector is that list (no start, stop or line given) is not
\* a line number, Parse raises and yields no selection: the ranges of the
\* items before the failing one are not used and nothing is bound.
C21_AllOrNothing ==
    (IsBind /\ \/ FailingItem(val.lines)
               \/ FailingEntry(val.lines) /\ Group(val.lines) = "lines")
       => NothingBound

\* a list whose second item fails after a first item that parses
C21_Witness ==
    /\ IsBind
    /\ val.lines = [tag |-> "list",
                    items |-> <<[tag |-> "int", v |-> 2], [tag |-> "int", v |-> 0]>>]
    /\ NothingBound

\* ------------------------------------------------------------------------
\* Properties of the rows of a scan
\* ------------------------------------------------------------------------
\* the contents of the rows, one after the other
RECURSIVE Contents(_)
Contents(rows) == IF rows = <<>> THEN <<>> ELSE rows[1].content \o Contents(Tail(rows))

\* the line ends just after its first line ending, or has none and ends the
\* text; `after` is the text that follows the line
EndsAtFirstEnding(line, after) ==
    /\ line # <<>>
    /\ \A i \in 1..(Len(line) - 1) :
          line[i] \in {"\n", "\r"} =>
             i = Len(line) - 1 /\ line[i] = "\r" /\ line[i + 1] = "\n"
    /\ line[Len(line)] \notin {"\n", "\r"} => after = <<>>
    /\ line[Len(line)] = "\r" => (after = <<>> \/ after[1] # "\n")

IsParseAll == fn = "parse_lines" /\ bind_data.line_selection.match_all

\* C22: under MatchAll the rows of parse_lines, put together in order, are
\* the text; each row ends just after the first line ending ("\n", "\r\n" as
\* one ending, or a lone "\r") or at the end of the text; row k has
\* line_number k and byte_offset the length of the rows before it; an empty
\* text gives no row.
C22_SplitRoundTrip ==
    IsParseAll =>
       /\ Contents(emitted) = SubStr(bind_data.text, 0, state.position)
       /\ ScanEnded => Contents(emitted) = bind_data.text
       /\ bind_data.text = <<>> => emitted = <<>>
       /\ \A k \in 1..Len(emitted) :
             /\ emitted[k].line_number = k
             /\ emitted[k].byte_offset = Len(Contents(SubSeq(emitted, 1, k - 1)))
             /\ EndsAtFirstEnding(emitted[k].content,
                   SubStrFrom(bind_data.text, Len(Contents(SubSeq(emitted, 1, k)))))

\* a text with a "\r\n" ending and a last line with no ending, scanned to
\* its end
C22_Witness ==
    /\ IsParseAll /\ ScanEnded
    /\ bind_data.text = <<"\r", "\n", "a">>
    /\ Len(emitted) = 2
    /\ emitted[1].content = <<"\r", "\n">>
    /\ emitted[2].byte_offset = 2

\* the number of "\n" in a text
NewLines(content) == Cardinality({i \in 1..Len(content) : content[i] = "\n"})

\* the file consists of newline-terminated lines and can be read
IsTerminated(file) ==
    /\ file.opens /\ file.fail_at = -1
    /\ file.content # <<>> => file.content[Len(file.content)] = "\n"

\* C23: with no line selection, read_lines over a file of k newline-terminated
\* lines emits exactly k rows numbered 1..k, the lines with an empty content
\* included, wherever they are in the file, the last line too.
C23_EmptyLinesIncluded ==
    (/\ fn = "read_lines" /\ bind_data.line_selection.match_all
     /\ Len(bind_data.files) = 1 /\ IsTerminated(bind_data.files[1])
     /\ ScanEnded)
       => /\ Len(emitted) = NewLines(bind_data.files[1].content)
          /\ \A k \in 1..Len(emitted) : emitted[k].line_number = k

\* ------------------------------------------------------------------------
\* Properties of the file list of read_lines
\* ------------------------------------------------------------------------
\* the files of the list that open, in order
Openable(files) ==
    LET Opens(file) == file.opens
    IN SelectSeq(files, Opens)

\* the position in the list of the first file that fails to open (0: none)
FirstLocked(files) ==
    IF \A i \in 1..Len(files) : files[i].opens THEN 0
    ELSE CHOOSE i \in 1..Len(files) :
            ~files[i].opens /\ \A j \in 1..(i - 1) : files[j].opens

\* the rows of the whole scan of the files that open
RowsOfOpenable ==
    ScanToEnd("read_lines", [bind_data EXCEPT !.files = Openable(bind_data.files)],
              ReadTextLinesInit, <<>>).rows

\* C24: when ignore_errors is true, a file that fails to open is skipped and
\* the files that remain are scanned in order with all their selected lines;
\* when it is false, the first failure to open a file ends the scan with an
\* error and no further file is opened.
C24_IgnoreErrors ==
    fn = "read_lines" =>
       IF bind_data.ignore_errors
       THEN /\ ~state.thrown
            /\ IsPrefix(emitted, RowsOfOpenable)
            /\ ScanEnded => emitted = RowsOfOpenable
       ELSE With(FirstLocked(bind_data.files), LAMBDA locked :
               /\ state.thrown => state.file_index = locked /\ output = <<>>
               /\ locked # 0 => state.file_index <= locked /\ ~ScanEnded)

\* a file that fails to open before a file of six lines, all of them emitted
C24_Witness ==
    /\ fn = "read_lines" /\ bind_data.ignore_errors /\ ScanEnded
    /\ Len(bind_data.files) = 2
    /\ ~bind_data.files[1].opens
    /\ bind_data.files[2].path = "six"
    /\ bind_data.line_selection.match_all
    /\ Len(emitted) = 6

\* ------------------------------------------------------------------------
\* Properties of the scans that read files
\* ------------------------------------------------------------------------
\* the calls of read_lines_lateral up to the end of the chunk: its rows
RECURSIVE LateralToEnd(_, _, _, _)
LateralToEnd(bind, st, chunk, rows) ==
    With(ReadTextLinesLateralInOut(bind, st, chunk), LAMBDA r :
       IF r.result = "HAVE_MORE_OUTPUT" THEN LateralToEnd(bind, r.st, chunk, rows \o r.out)
       ELSE rows \o r.out)

\* the rows of the scan of the one file, by the function of the scan
RowsAlone(file) ==
    IF file = NullPath \/ ~file.opens THEN <<>>
    ELSE IF fn = "read_lines"
    THEN ScanToEnd(fn, [bind_data EXCEPT !.files = <<file>>], ReadTextLinesInit, <<>>).rows
    ELSE LateralToEnd(bind_data, ReadTextLinesLateralInit, <<file>>, <<>>)

RECURSIVE RowsEachAlone(_)
RowsEachAlone(files) ==
    IF files = <<>> THEN <<>> ELSE RowsAlone(files[1]) \o RowsEachAlone(Tail(files))

RECURSIVE Flatten(_)
Flatten(chunks) == IF chunks = <<>> THEN <<>> ELSE chunks[1] \o Flatten(Tail(chunks))

\* the files of the scan, in order
ScanFiles == IF fn = "read_lines" THEN bind_data.files ELSE Flatten(input.chunks)

\* a failure to open the file ends the scan with an error
Aborts(file) == file # NullPath /\ ~file.opens /\ ~bind_data.ignore_errors

\* the files the scan reaches: those before the first one that ends it
ReachedFiles ==
    IF \E i \in 1..Len(ScanFiles) : Aborts(ScanFiles[i])
    THEN SubSeq(ScanFiles, 1, (CHOOSE i \in 1..Len(ScanFiles) :
                                  /\ Aborts(ScanFiles[i])
                                  /\ \A k \in 1..(i - 1) : ~Aborts(ScanFiles[k])) - 1)
    ELSE ScanFiles

\* the file that is open, or was open last
CurrentFile ==
    IF fn = "read_lines" THEN bind_data.files[state.current_file]
    ELSE input.chunks[Min(input.index, Len(input.chunks))][state.current_file]

\* the scan is over: no call is left to make
FilesDone ==
    /\ ~state.thrown
    /\ IF fn = "read_lines" THEN ScanEnded ELSE input.index > Len(input.chunks)

\* the selection of the open file is a copy of that of the bind data,
\* resolved against the line count of the file when it has from-end
\* references, and the rows so far are those of each file scanned alone
FreshPerFile ==
    /\ (state.current_file # 0 /\ (fn = "read_lines" \/ state.file_open)) =>
          state.resolved_selection =
             IF HasFromEndReferences(bind_data.line_selection)
             THEN ResolveFromEnd(bind_data.line_selection, CountLinesInFile(CurrentFile))
             ELSE bind_data.line_selection
    /\ IsPrefix(emitted, RowsEachAlone(ReachedFiles))
    /\ FilesDone => emitted = RowsEachAlone(ReachedFiles)

\* C25: scanning never modifies the selection of the bind data; for each
\* file opened, the selection its lines are tested against is a fresh copy
\* of the bind-time selection (resolved against the line count of that file
\* when it has from-end references, before the first line is tested), so the
\* rows of a file do not depend on the files scanned before it.
C25_CloneThenResolve ==
    /\ [](fn # "none" => FreshPerFile)
    /\ [][bind_data' = bind_data]_vars

\* the second of two files of six lines, scanned under the selection 2-3
C25_Witness ==
    /\ fn = "read_lines" /\ ScanEnded
    /\ Len(bind_data.files) = 2
    /\ bind_data.files[1].path = "six" /\ bind_data.files[2].path = "six"
    /\ bind_data.line_selection = [ranges |-> <<LineRange(2, 3)>>, match_all |-> FALSE]
    /\ state.resolved_selection = bind_data.line_selection
    /\ Len(emitted) = 4

\* the position, from 1, of the k-th "\n" of a text
NthNewLine(content, k) ==
    CHOOSE i \in 1..Len(content) :
       content[i] = "\n" /\ NewLines(SubSeq(content, 1, i)) = k

\* the lines of a text: the "\n"-terminated ones and a last one with no "\n"
LineCount(content) ==
    NewLines(content)
       + (IF content # <<>> /\ content[Len(content)] # "\n" THEN 1 ELSE 0)

\* the offset of the first byte of line k, and line k without its "\n"
LineStart(content, k) == IF k = 1 THEN 0 ELSE NthNewLine(content, k - 1)

LineText(content, k) ==
    SubSeq(content, LineStart(content, k) + 1,
           IF k <= NewLines(content) THEN NthNewLine(content, k) - 1 ELSE Len(content))

\* the row is line line_number of the file, counted and measured from the
\* start of that file, and carries its path
IsRowOf(row, file) ==
    /\ file # NullPath
    /\ file.opens
    /\ row.file_path = file.path
    /\ row.line_number \in 1..LineCount(file.content)
    /\ row.byte_offset = LineStart(file.content, row.line_number)
    /\ row.content = LineText(file.content, row.line_number)

\* the rows are those of files[i], files[i + 1], ... in that order, the rows
\* of one file together and in the order of its lines; last is the line
\* number of the row of files[i] before rows[1] (0: none yet)
RECURSIVE InFileOrder(_, _, _, _)
InFileOrder(rows, files, i, last) ==
    IF rows = <<>> THEN TRUE
    ELSE IF i > Len(files) THEN FALSE
    ELSE IF IsRowOf(rows[1], files[i]) /\ rows[1].line_number > last
    THEN InFileOrder(Tail(rows), files, i, rows[1].line_number)
    ELSE InFileOrder(rows, files, i + 1, 0)

\* C26: read_lines scans its files one at a time in the order of the list,
\* the rows of different files never interleaved; every row carries the path
\* of its file, the number of its line counted from the start of that file
\* and the offset of the line from the start of that file, so that the first
\* line of every file is numbered 1 and has byte_offset 0.
C26_PerFileReset ==
    fn = "read_lines" =>
       /\ InFileOrder(emitted, bind_data.files, 1, 0)
       /\ \A k \in 1..Len(emitted) :
             emitted[k].line_number = 1 => emitted[k].byte_offset = 0
       /\ state.current_file # 0 =>
             state.current_file_path = bind_data.files[state.current_file].path

\* two files under MatchAll: the first row of the second file is numbered 1
\* at offset 0, after the three rows of the first
C26_Witness ==
    /\ fn = "read_lines" /\ ScanEnded
    /\ Len(bind_data.files) = 2
    /\ bind_data.files[1].path = "gap" /\ bind_data.files[2].path = "six"
    /\ bind_data.line_selection.match_all
    /\ Len(emitted) = 9
    /\ emitted[4] = [line_number |-> 1, content |-> <<"a">>, byte_offset |-> 0,
                     file_path |-> "six"]

\* ------------------------------------------------------------------------
\* Termination of the scans
\* ------------------------------------------------------------------------
\* the bind data a scan can start from
ScanBinds(f) ==
    IF f = "read_lines"
    THEN [files : FileLists, text : {<<>>}, line_selection : ScanSelections,
          ignore_errors : BOOLEAN]
    ELSE [files : {<<>>}, text : Texts, line_selection : ScanSelections,
          ignore_errors : {FALSE}]

\* bind and init of a scan of read_lines or parse_lines
StartScan ==
    /\ fn = "none"
    /\ \E f \in {"read_lines", "parse_lines"} :
          /\ fn' = f
          /\ bind_data' \in ScanBinds(f)
          /\ state' = ScanInit(f)
    /\ UNCHANGED <<build, engineVars, output, emitted, calls, input>>

NextStarted == StartScan \/ CallReadTextLines \/ CallParseTextLines

\* a step of NextStarted can be taken: the guards of its actions, each of
\* which changes calls or fn (ENABLED <<NextStarted>>_vars, written out)
CanCall ==
    \/ fn = "none"
    \/ fn = "read_lines" /\ ~state.thrown /\ calls.empty < MaxEmptyCalls
    \/ fn = "parse_lines" /\ calls.empty < MaxEmptyCalls

\* the engine starts the scan and calls the scan function again until it
\* returns an empty chunk or raises: WF_vars(NextStarted), with CanCall for
\* ENABLED <<NextStarted>>_vars
SpecScanFair ==
    Init /\ [][NextStarted]_vars /\ ([]<>~CanCall \/ []<><<NextStarted>>_vars)

\* the selection the lines of the file are tested against
SelectionFor(file) ==
    IF HasFromEndReferences(bind_data.line_selection)
    THEN ResolveFromEnd(bind_data.line_selection, CountLinesInFile(file))
    ELSE bind_data.line_selection

\* the lines of the file that can be read: all of them, or those before the
\* one whose read fails
ReadableLines(file) ==
    IF ~file.opens THEN {}
    ELSE {k \in 1..LineCount(file.content) :
             file.fail_at = -1 \/ LineStart(file.content, k) < file.fail_at}

\* the number of selected lines in the files
RECURSIVE SelectedLines(_)
SelectedLines(files) ==
    IF files = <<>> THEN 0
    ELSE Cardinality({k \in ReadableLines(files[1]) :
                         ShouldIncludeLine(SelectionFor(files[1]), k)})
            + SelectedLines(Tail(files))

\* every selected line of the input has been emitted
NoneRemains ==
    IF fn = "read_lines" THEN Len(emitted) = SelectedLines(bind_data.files)
    ELSE emitted = FilteredRows

\* a selected line is emitted by the call that reads it, so an empty chunk
\* is returned only when every selected line has been emitted
EmptyOnlyAtEnd == ScanEnded => NoneRemains

\* after an empty chunk every chunk is empty
EmptyForEver == [][ScanEnded => ScanEnded']_vars

\* C27: over a finite list of finite files (read_lines) or a finite text
\* (parse_lines), under any selection, the repeated calls of the scan
\* function eventually return an empty chunk (or the scan ends with the
\* error of a file that cannot be opened); a chunk is empty only when no
\* selected line remains in the input, and after an empty chunk every later
\* chunk is empty too.
C27_ScanTermination ==
    /\ <>(fn # "none" /\ (ScanEnded \/ state.thrown))
    /\ [](state.thrown => ~bind_data.ignore_errors /\ FirstLocked(bind_data.files) # 0)
    /\ [](fn # "none" => EmptyOnlyAtEnd)
    /\ EmptyForEver

\* ------------------------------------------------------------------------
\* Properties of read_lines_lateral
\* ------------------------------------------------------------------------
IsLateral == fn = "read_lines_lateral"

\* the rows the calls have taken from chunk c, in the order they took them
LogOf(c) ==
    LET OfChunk(e) == e[1] = c
    IN SelectSeq(input.log, OfChunk)

\* the first k rows of chunk c, each taken once, in row order: a null path
\* passed over, any other path opened
InRowOrder(c, k) ==
    [i \in 1..k |-> <<c, i - 1, IF input.chunks[c][i] = NullPath THEN "null" ELSE "open">>]

\* the rows of the chunk the calls are on that have been taken
Consumed == IF state.file_open THEN state.current_row + 1 ELSE state.current_row

\* every row of a chunk that is done has been taken exactly once in row
\* order, and so have the rows of the current chunk up to the current one
RowsOnceInOrder ==
    /\ \A c \in 1..Len(input.chunks) :
          LogOf(c) = InRowOrder(c, IF c < input.index THEN Len(input.chunks[c])
                                   ELSE IF c = input.index THEN Consumed ELSE 0)
    /\ \A i, j \in 1..Len(input.log) : i < j => input.log[i][1] <= input.log[j][1]

\* what the last call returned, against the state it left
ResultMatchesState ==
    (calls.n > 0 /\ ~state.thrown) =>
       /\ input.result \in {"HAVE_MORE_OUTPUT", "NEED_MORE_INPUT"}
       /\ input.result = "HAVE_MORE_OUTPUT" =>
             /\ input.index <= Len(input.chunks)
             /\ state.file_open \/ state.current_row < Len(input.chunks[input.index])
       /\ input.result = "NEED_MORE_INPUT" =>
             /\ ~state.file_open
             /\ state.current_row = 0
             /\ input.index > 1
             /\ Len(LogOf(input.index - 1)) = Len(input.chunks[input.index - 1])

\* C28: for each input chunk of read_lines_lateral, over the calls repeated
\* while HAVE_MORE_OUTPUT is returned, every row is taken exactly once in row
\* order (a null path is passed over, any other path is opened once);
\* HAVE_MORE_OUTPUT is returned whenever a file is still open or rows of the
\* chunk are left; NEED_MORE_INPUT is returned only when no file is open and
\* every row of the chunk has been taken, and current_row is then 0 for the
\* next chunk.
C28_LateralProtocol ==
    /\ [](IsLateral => RowsOnceInOrder /\ ResultMatchesState)
    /\ [][IsLateral => IsPrefix(input.log, input.log')]_vars

\* a chunk of a null path and a file of six lines, then a chunk of one
\* file, both done: three rows taken, nine lines emitted
C28_Witness ==
    /\ IsLateral
    /\ Len(input.chunks) = 2 /\ input.index = 3
    /\ Len(input.chunks[1]) = 2
    /\ input.chunks[1][1] = NullPath /\ input.chunks[1][2] # NullPath
    /\ input.chunks[1][2].path = "six"
    /\ input.chunks[2] # <<>> /\ input.chunks[2][1] # NullPath
    /\ input.result = "NEED_MORE_INPUT"
    /\ input.log = <<<<1, 0, "null">>, <<1, 1, "open">>, <<2, 0, "open">>>>
    /\ Len(emitted) = 9

\* ------------------------------------------------------------------------
\* Properties of the lines argument of read_lines
\* ------------------------------------------------------------------------
\* the path of the call is split: it names no file as it is, and the path
\* extracted from it names one
PathExtracted ==
    With(ParsePathWithLineSpec(val.path), LAMBDA parsed :
       val.path \notin val.fs /\ parsed.path # val.path /\ parsed.path \in val.fs)

\* the selection the path of the call gives
PathSelection == IF PathExtracted THEN ParsePathWithLineSpec(val.path).sel ELSE All

\* the selection is `selection` with the named context of the call added,
\* in one of the two orders the named parameters can be visited in
WithGlobalContext(selection) ==
    \E context_first \in BOOLEAN :
       With(NamedContext(val.before, val.after, val.context, context_first),
            LAMBDA named : sel = BindContext(selection, named.before, named.after))

\* C29: in the binding of read_lines the selection of the path is used if and
\* only if the call has no explicit lines argument (no second positional
\* argument that is not NULL, no named parameter `lines`); with an explicit
\* lines argument and a line spec in the path, the file read is still the
\* extracted path and the selection is that of the lines argument alone; the
\* global context is added after this choice.
C29_ExplicitLinesOverride ==
    (val.tag = "read_lines" /\ status = "ok") =>
       /\ base = IF HasExplicitLines THEN LinesSelection ELSE PathSelection
       /\ PathExtracted => bind_data.files = <<ParsePathWithLineSpec(val.path).path>>
       /\ WithGlobalContext(base)

\* read_lines('f:2', '2-3', before := 1) where only f is a file: f is read
\* under 2-3 widened to 1-3, and line 2 of the path is not used
C29_Witness ==
    /\ val.tag = "read_lines" /\ status = "ok"
    /\ val.path = <<"f", ":", "2">> /\ val.fs = {<<"f">>}
    /\ val.lines = [tag |-> "str", s |-> <<"2", "-", "3">>] /\ ~val.by_name
    /\ val.before = 1 /\ val.after = Absent /\ val.context = Absent
    /\ bind_data.files = <<<<"f">>>>
    /\ base = [ranges |-> <<LineRange(2, 3)>>, match_all |-> FALSE]
    /\ sel = [ranges |-> <<LineRange(1, 3)>>, match_all |-> FALSE]

\* ------------------------------------------------------------------------
\* Properties of a failing read
\* ------------------------------------------------------------------------
\* a read of the file fails part-way
IsTorn(file) == file # NullPath /\ file.opens /\ file.fail_at # -1

\* the rows of the selected lines of the file that come before the read that
\* fails, from the text of the file
RowsBeforeFailure(file) ==
    LET Row(k) == [line_number |-> k, content |-> LineText(file.content, k),
                   byte_offset |-> LineStart(file.content, k),
                   file_path |-> file.path]
        Kept(row) == /\ row.line_number \in ReadableLines(file)
                     /\ ShouldIncludeLine(SelectionFor(file), row.line_number)
    IN SelectSeq([k \in 1..LineCount(file.content) |-> Row(k)], Kept)

\* the rows of the files in order: of a file with a failing read, those
\* before the failure; of another file, those of its scan alone
RECURSIVE RowsDespiteFailures(_)
RowsDespiteFailures(files) ==
    IF files = <<>> THEN <<>>
    ELSE (IF IsTorn(files[1]) THEN RowsBeforeFailure(files[1]) ELSE RowsAlone(files[1]))
            \o RowsDespiteFailures(Tail(files))

\* the file whose opening raised
RaisedOn ==
    IF fn = "read_lines" THEN bind_data.files[state.file_index]
    ELSE input.chunks[input.index][state.current_row + 1]

\* C30: a read that fails part-way through a file is never an error, whatever
\* ignore_errors is: the scan of that file ends there, the rows it has
\* emitted are kept, and the scan goes on with the next file (read_lines) or
\* the next input row (read_lines_lateral).
C30_ReadFailureSilent ==
    fn \in {"read_lines", "read_lines_lateral"} =>
       /\ state.thrown => ~RaisedOn.opens
       /\ IsPrefix(emitted, RowsDespiteFailures(ReachedFiles))
       /\ FilesDone => emitted = RowsDespiteFailures(ReachedFiles)

\* read_lines with ignore_errors false over a file whose second read fails
\* and a file of six lines: the first line of the one, then the six of the
\* other
C30_Witness ==
    /\ fn = "read_lines" /\ ScanEnded /\ ~bind_data.ignore_errors
    /\ Len(bind_data.files) = 2
    /\ IsTorn(bind_data.files[1]) /\ bind_data.files[2].path = "six"
    /\ bind_data.line_selection.match_all
    /\ Len(emitted) = 7
    /\ emitted[1].file_path = "torn" /\ emitted[2].file_path = "six"

====
